---------------------------- MODULE Spec2Model ----------------------------
(***************************************************************************)
(* A model of the Logseq graph service (src/src/graph.ts).                 *)
(*                                                                         *)
(* Text is a sequence of one-character tokens (a few fixed words such as   *)
(* ".md" or "pages" are kept as one token: no operation of the service     *)
(* looks inside them).  A path is a sequence of segments, a segment is a   *)
(* sequence of tokens.  The file system is a function from absolute paths  *)
(* to entries: a directory, a regular file with its text, or a symbolic    *)
(* link with its target.                                                   *)
(***************************************************************************)
EXTENDS Integers, Sequences, FiniteSets, TLC

VARIABLES fs, last, hist, procs

vars == <<fs, last, hist, procs>>

(***************************************************************************)
(* Characters                                                              *)
(***************************************************************************)
Alpha == {"A", "B", "C", "L", "D", "N", "k", "v", "t", "w", "x", "y",
          "a", "b", "c", "l", "d", "n"}

Digit == {"0", "1", "2"}

\* one token for a Hangul syllable (U+AC00..U+D7A3), three bytes in UTF-8
Hangul == {"<han>"}

\* what the regular-expression class \s and String.prototype.trim take for blank
Blank == {" ", "\t", "\n", "\r"}

\* a token that stands for MAX_CONTENT_SIZE bytes of ordinary text
BigChunk == "<10MiB>"

MAX_CONTENT_SIZE == 10 * 1024 * 1024

MAX_DEPTH == 10

MAX_NAME_LENGTH == 200

\* Buffer.byteLength(content, 'utf-8')
RECURSIVE byteLength(_)
byteLength(s) ==
  IF s = <<>> THEN 0
  ELSE (IF Head(s) = BigChunk THEN MAX_CONTENT_SIZE
        ELSE IF Head(s) \in Hangul THEN 3 ELSE 1) + byteLength(Tail(s))

\* String.prototype.length (UTF-16 units)
RECURSIVE strLength(_)
strLength(s) ==
  IF s = <<>> THEN 0
  ELSE (IF Head(s) = BigChunk THEN MAX_CONTENT_SIZE
        ELSE IF Head(s) = ".md" THEN 3
        ELSE IF Head(s) = ".." THEN 2
        ELSE IF Head(s) = "<201>" THEN MAX_NAME_LENGTH + 1
        ELSE 1) + strLength(Tail(s))

(***************************************************************************)
(* Sequence helpers                                                        *)
(***************************************************************************)
Range(s) == {s[i] : i \in 1..Len(s)}

At(s, i) == IF i >= 1 /\ i <= Len(s) THEN s[i] ELSE "<eof>"

\* Set.add followed by Array.from: first-seen order, no duplicate
AddUnique(s, x) == IF x \in Range(s) THEN s ELSE Append(s, x)

\* the first index >= i of s that holds a token of stop, or Len(s)+1
RECURSIVE RunEnd(_, _, _)
RunEnd(s, i, stop) ==
  IF i > Len(s) \/ s[i] \in stop THEN i ELSE RunEnd(s, i + 1, stop)

\* the first index >= i of s that holds a token outside keep, or Len(s)+1
RECURSIVE ClassEnd(_, _, _)
ClassEnd(s, i, keep) ==
  IF i > Len(s) \/ s[i] \notin keep THEN i ELSE ClassEnd(s, i + 1, keep)

\* String.prototype.includes for a one- or two-token needle
Includes1(s, c) == \E i \in 1..Len(s) : s[i] = c

Includes2(s, c, d) == \E i \in 1..Len(s) : s[i] = c /\ At(s, i + 1) = d

\* String.prototype.split on a one-token separator
RECURSIVE Split(_, _)
Split(s, sep) ==
  LET j == RunEnd(s, 1, {sep})
  IN  IF j > Len(s) THEN <<s>>
      ELSE <<SubSeq(s, 1, j - 1)>> \o Split(SubSeq(s, j + 1, Len(s)), sep)

\* Array.prototype.join
RECURSIVE Join(_, _)
Join(ls, sep) ==
  IF ls = <<>> THEN <<>>
  ELSE IF Len(ls) = 1 THEN ls[1]
  ELSE ls[1] \o sep \o Join(Tail(ls), sep)

\* String.prototype.trimEnd
RECURSIVE trimEnd(_)
trimEnd(s) ==
  IF s # <<>> /\ s[Len(s)] \in Blank THEN trimEnd(SubSeq(s, 1, Len(s) - 1)) ELSE s

\* line.trim() === ''
IsBlankLine(s) == \A i \in 1..Len(s) : s[i] \in Blank

\* String.prototype.replace(/-/g, '_')
DashToUnderscore(s) == [i \in 1..Len(s) |-> IF s[i] = "-" THEN "_" ELSE s[i]]

(***************************************************************************)
(* Document parser                                                         *)
(***************************************************************************)
TagChar == Alpha \cup Digit \cup Hangul \cup {"_", "-", "/"}

\* /#([a-zA-Z0-9_\-/\uAC00-\uD7A3]+)/g
RECURSIVE ScanTags(_, _, _)
ScanTags(s, i, acc) ==
  IF i > Len(s) THEN acc
  ELSE IF s[i] = "#" /\ ClassEnd(s, i + 1, TagChar) > i + 1
       THEN LET j == ClassEnd(s, i + 1, TagChar)
            IN  ScanTags(s, j, AddUnique(acc, SubSeq(s, i + 1, j - 1)))
       ELSE ScanTags(s, i + 1, acc)

extractTags(content) == ScanTags(content, 1, <<>>)

\* one attempt of /\[\[([^\]|]+)(?:\|[^\]]+)?\]\]/ at index i
LinkMatch(s, i) ==
  LET none == [ok |-> FALSE, cap |-> <<>>, end |-> i + 1]
      j == RunEnd(s, i + 2, {"]", "|"})
      k == RunEnd(s, j + 1, {"]"})
  IN  IF ~(At(s, i) = "[" /\ At(s, i + 1) = "[") \/ j = i + 2 THEN none
      ELSE IF At(s, j) = "]" /\ At(s, j + 1) = "]"
           THEN [ok |-> TRUE, cap |-> SubSeq(s, i + 2, j - 1), end |-> j + 2]
      ELSE IF At(s, j) = "|" /\ k > j + 1 /\ At(s, k) = "]" /\ At(s, k + 1) = "]"
           THEN [ok |-> TRUE, cap |-> SubSeq(s, i + 2, j - 1), end |-> k + 2]
      ELSE none

RECURSIVE ScanLinks(_, _, _)
ScanLinks(s, i, acc) ==
  IF i > Len(s) THEN acc
  ELSE LET m == LinkMatch(s, i)
       IN  IF m.ok THEN ScanLinks(s, m.end, AddUnique(acc, m.cap))
           ELSE ScanLinks(s, i + 1, acc)

extractLinks(content) == ScanLinks(content, 1, <<>>)

\* the key class of parseProperties: [a-zA-Z_-]
ParseKeyChar == Alpha \cup {"_", "-"}

\* line.match(/^([a-zA-Z_-]+)::\s*(.*)$/)
PropMatch(line) ==
  LET j == ClassEnd(line, 1, ParseKeyChar)
      v == ClassEnd(line, j + 2, Blank)
  IN  IF /\ j > 1 /\ At(line, j) = ":" /\ At(line, j + 1) = ":"
         \* "." takes no line terminator, and "$" is the end of the line
         /\ ~Includes1(SubSeq(line, v, Len(line)), "\r")
      THEN [ok |-> TRUE, key |-> SubSeq(line, 1, j - 1),
            value |-> SubSeq(line, v, Len(line))]
      ELSE [ok |-> FALSE, key |-> <<>>, value |-> <<>>]

\* properties[key] = value on a JavaScript object: a known key keeps its place
SetProp(ps, k, v) ==
  IF \E i \in 1..Len(ps) : ps[i][1] = k
  THEN [i \in 1..Len(ps) |-> IF ps[i][1] = k THEN <<k, v>> ELSE ps[i]]
  ELSE Append(ps, <<k, v>>)

\* the loop of parseProperties from line i on
RECURSIVE ParseLoop(_, _, _, _)
ParseLoop(lines, i, ps, bodyStart) ==
  IF i > Len(lines) THEN [properties |-> ps, bodyStart |-> bodyStart]
  ELSE LET m == PropMatch(lines[i])
       IN  IF m.ok THEN ParseLoop(lines, i + 1, SetProp(ps, m.key, m.value), i)
           ELSE IF IsBlankLine(lines[i]) THEN ParseLoop(lines, i + 1, ps, bodyStart)
           ELSE [properties |-> ps, bodyStart |-> bodyStart]

\* bodyStart counts the lines dropped from the front (the source's 0-based index)
parseProperties(content) ==
  LET lines == Split(content, "\n")
      r == ParseLoop(lines, 1, <<>>, 0)
  IN  [properties |-> r.properties,
       body |-> Join(SubSeq(lines, r.bodyStart + 1, Len(lines)), <<"\n">>)]

\* /^[a-zA-Z][a-zA-Z0-9_-]*$/
ValidKey(k) ==
  /\ k # <<>>
  /\ k[1] \in Alpha
  /\ \A i \in 1..Len(k) : k[i] \in Alpha \cup Digit \cup {"_", "-"}

\* a validation that looks at the keys alone
validateKeysOnly(ps) ==
  IF \E i \in 1..Len(ps) : ~ValidKey(ps[i][1]) THEN "Invalid property key" ELSE ""

\* the error validateProperties throws, or "" when it returns
validateProperties(ps) ==
  LET bad(i) ==
        IF Includes1(ps[i][1], "\n") \/ Includes1(ps[i][1], "\r")
           \/ Includes2(ps[i][1], ":", ":")
        THEN "Invalid property key"
        ELSE IF Includes1(ps[i][2], "\n") \/ Includes1(ps[i][2], "\r")
        THEN "Invalid property value"
        ELSE IF ~ValidKey(ps[i][1]) THEN "Invalid property key"
        ELSE ""
      firstBad == CHOOSE i \in 1..Len(ps) :
                    bad(i) # "" /\ \A j \in 1..(i - 1) : bad(j) = ""
  IN  IF \E i \in 1..Len(ps) : bad(i) # "" THEN bad(firstBad) ELSE ""

\* `${key}:: ${value}` for every entry
PropLines(ps) == [i \in 1..Len(ps) |-> ps[i][1] \o <<":", ":", " ">> \o ps[i][2]]

\* buildContent: [err, text]
buildContent(content, ps) ==
  IF ps = <<>> THEN [err |-> "", text |-> content]
  ELSE IF validateProperties(ps) # "" THEN [err |-> validateProperties(ps), text |-> <<>>]
  ELSE [err |-> "", text |-> Join(PropLines(ps), <<"\n">>) \o <<"\n", "\n">> \o content]

\* validateContentSize: the error, or ""
validateContentSize(content) ==
  IF byteLength(content) > MAX_CONTENT_SIZE THEN "Content too large" ELSE ""

(***************************************************************************)
(* Paths                                                                   *)
(***************************************************************************)
\* graphPath, pagesPath and journalsPath of the constructor
graphPath == << <<"g">> >>

pagesPath == graphPath \o << <<"pages">> >>

journalsPath == graphPath \o << <<"journals">> >>

\* path.normalize on an absolute path: "", "." and ".." segments are resolved
RECURSIVE normalizeFrom(_, _)
normalizeFrom(acc, segs) ==
  IF segs = <<>> THEN acc
  ELSE LET h == Head(segs)
       IN  IF h = <<>> \/ h = <<".">> THEN normalizeFrom(acc, Tail(segs))
           ELSE IF h = <<"..">>
                THEN normalizeFrom(IF acc = <<>> THEN acc
                                   ELSE SubSeq(acc, 1, Len(acc) - 1), Tail(segs))
           ELSE normalizeFrom(Append(acc, h), Tail(segs))

\* path.join(base, p) for an absolute base and a string p
join(base, p) == normalizeFrom(<<>>, base \o Split(p, "/"))

\* path.resolve of an absolute path
resolve(path) == normalizeFrom(<<>>, path)

IsPrefix(a, b) == Len(a) <= Len(b) /\ SubSeq(b, 1, Len(a)) = a

\* validatePath: [err, path]
validatePath(filePath) ==
  LET normalizedPath == resolve(filePath)
      normalizedGraphPath == resolve(graphPath)
  IN  IF ~IsPrefix(normalizedGraphPath, normalizedPath)
      THEN [err |-> "Access denied", path |-> normalizedPath]
      ELSE [err |-> "", path |-> normalizedPath]

\* path.extname(file) === '.md'
IsMd(file) == Len(file) > 1 /\ file[Len(file)] = ".md"

\* path.basename(p, '.md')
basename(p) ==
  LET file == IF p = <<>> THEN <<>> ELSE p[Len(p)]
  IN  IF IsMd(file) THEN SubSeq(file, 1, Len(file) - 1) ELSE file

\* filePath.includes('/journals/')
InJournals(p) == \E i \in 1..(Len(p) - 1) : p[i] = <<"journals">>

\* filePath.replace(this.graphPath + '/', '')
Relative(p) ==
  IF IsPrefix(graphPath, p) /\ Len(p) > Len(graphPath)
  THEN SubSeq(p, Len(graphPath) + 1, Len(p)) ELSE p

(***************************************************************************)
(* The file system                                                         *)
(***************************************************************************)
\* every entry carries the hard-link count lstat reports for it (stats.nlink)
Dir == [k |-> "dir", text |-> <<>>, to |-> <<>>, nlink |-> 1]

File(text) == [k |-> "file", text |-> text, to |-> <<>>, nlink |-> 1]

Link(to) == [k |-> "link", text |-> <<>>, to |-> to, nlink |-> 1]

\* a regular file that has a second name somewhere else
HardLinked(text) == [k |-> "file", text |-> text, to |-> <<>>, nlink |-> 2]

Kind(f, p) == IF p = <<>> THEN "dir" ELSE IF p \in DOMAIN f THEN f[p].k ELSE "none"

Parent(p) == SubSeq(p, 1, Len(p) - 1)

\* the error of a path with no entry: a component that is a file, or nothing there
Missing(f, p) ==
  IF \E i \in 1..(Len(p) - 1) : Kind(f, SubSeq(p, 1, i)) = "file"
  THEN "ENOTDIR" ELSE "ENOENT"

\* the entry a path leads to once its symbolic links are followed
RECURSIVE Follow(_, _, _)
Follow(f, p, fuel) ==
  IF Kind(f, p) = "link" /\ fuel > 0 THEN Follow(f, f[p].to, fuel - 1) ELSE p

RealPath(f, p) == Follow(f, p, 2)

\* lstat: the kind of the entry itself, or the error
lstat(f, p) == IF Kind(f, p) = "none" THEN Missing(f, p) ELSE Kind(f, p)

\* stat: the kind of the entry the path leads to, or the error
stat(f, p) ==
  LET q == RealPath(f, p)
  IN  IF Kind(f, q) = "none" THEN Missing(f, q)
      ELSE IF Kind(f, q) = "link" THEN "ELOOP" ELSE Kind(f, q)

\* readFile(p, 'utf-8'): [err, text, at]
readFile(f, p) ==
  LET q == RealPath(f, p)
  IN  IF Kind(f, q) = "file" THEN [err |-> "", text |-> f[q].text, at |-> q]
      ELSE [err |-> IF Kind(f, q) = "dir" THEN "EISDIR"
                    ELSE IF Kind(f, q) = "link" THEN "ELOOP" ELSE Missing(f, q),
            text |-> <<>>, at |-> q]

Put(f, p, e) == [q \in DOMAIN f \cup {p} |-> IF q = p THEN e ELSE f[q]]

Remove(f, p) == [q \in DOMAIN f \ {p} |-> f[q]]

\* writeFile(p, text, 'utf-8'): [err, fs, at]
writeFile(f, p, text) ==
  LET q == RealPath(f, p)
  IN  IF Kind(f, q) = "file"
      THEN [err |-> "", fs |-> Put(f, q, [f[q] EXCEPT !.text = text]), at |-> q]
      ELSE IF Kind(f, q) = "dir" THEN [err |-> "EISDIR", fs |-> f, at |-> q]
      ELSE IF Kind(f, q) = "link" THEN [err |-> "ELOOP", fs |-> f, at |-> q]
      ELSE IF q = <<>> \/ Kind(f, Parent(q)) # "dir"
           THEN [err |-> Missing(f, q), fs |-> f, at |-> q]
      ELSE [err |-> "", fs |-> Put(f, q, File(text)), at |-> q]

\* writeFile(p, text, {flag: 'wx'}): the entry must not exist, link or not
writeFileExcl(f, p, text) ==
  IF Kind(f, p) # "none" THEN [err |-> "EEXIST", fs |-> f, at |-> p]
  ELSE IF Kind(f, Parent(p)) # "dir" THEN [err |-> Missing(f, p), fs |-> f, at |-> p]
  ELSE [err |-> "", fs |-> Put(f, p, File(text)), at |-> p]

\* an unlink that reports success and removes nothing
unlinkNothing(f, p) == [err |-> "", fs |-> f]

\* unlink(p): removes the entry itself: [err, fs]
unlink(f, p) ==
  IF Kind(f, p) = "none" THEN [err |-> Missing(f, p), fs |-> f]
  ELSE IF Kind(f, p) = "dir" THEN [err |-> "EISDIR", fs |-> f]
  ELSE [err |-> "", fs |-> Remove(f, p)]

\* mkdir(p, {recursive: true}): [err, fs]
RECURSIVE mkdirFrom(_, _, _)
mkdirFrom(f, p, i) ==
  IF i > Len(p) THEN [err |-> "", fs |-> f]
  ELSE LET d == SubSeq(p, 1, i)
       IN  IF Kind(f, d) = "dir" THEN mkdirFrom(f, p, i + 1)
           ELSE IF Kind(f, d) = "none" THEN mkdirFrom(Put(f, d, Dir), p, i + 1)
           ELSE [err |-> IF i = Len(p) THEN "EEXIST" ELSE "ENOTDIR", fs |-> f]

mkdir(f, p) == mkdirFrom(f, p, 1)

\* the order in which a directory lists its entries: fixed by the entries
TokenOrder ==
  <<"0", "1", "2", "A", "B", "C", "D", "L", "N", "k", "t", "v", "w", "x", "y",
    "_", "-", " ", "\n", "\t", ".", "..", ".md", "etc", "passwd", "pages",
    "journals", "g", "<han>", "<201>", "<10MiB>", "sub", "#", "[", "]", "|", ":",
    "a", "b", "c", "l", "d", "n", "Access", "denied">>

TokRank(c) == CHOOSE i \in 1..Len(TokenOrder) : TokenOrder[i] = c

RECURSIVE SegLess(_, _)
SegLess(a, b) ==
  IF a = <<>> THEN b # <<>>
  ELSE IF b = <<>> THEN FALSE
  ELSE IF a[1] = b[1] THEN SegLess(Tail(a), Tail(b))
  ELSE TokRank(a[1]) < TokRank(b[1])

RECURSIVE SortSegs(_)
SortSegs(S) ==
  IF S = {} THEN <<>>
  ELSE LET m == CHOOSE x \in S : \A y \in S \ {x} : SegLess(x, y)
       IN  <<m>> \o SortSegs(S \ {m})

\* readdir(d): [err, files]
readdir(f, d) ==
  IF Kind(f, d) # "dir" THEN [err |-> IF Kind(f, d) = "none" THEN Missing(f, d)
                                      ELSE "ENOTDIR", files |-> <<>>]
  ELSE [err |-> "",
        files |-> SortSegs({p[Len(p)] : p \in {q \in DOMAIN f : Len(q) > 0 /\ Parent(q) = d}})]


(***************************************************************************)
(* The graph service: every operation returns                              *)
(*   [fs, ok, err, val, acc]                                               *)
(* the file system it leaves, whether it returned, the message of the      *)
(* error it threw, the value it returned, and the file contents it read,   *)
(* wrote or removed (as <<"read" | "write" | "unlink", real path>>).       *)
(***************************************************************************)
NoVal == <<>>

Ok(f, val, acc) == [fs |-> f, ok |-> TRUE, err |-> "", val |-> val, acc |-> acc]

Err(f, err, acc) == [fs |-> f, ok |-> FALSE, err |-> err, val |-> NoVal, acc |-> acc]

\* checkSymlink: the error, or "" (every other lstat failure is swallowed)
checkSymlink(f, filePath) ==
  IF lstat(f, filePath) = "link" THEN "Access denied" ELSE ""

\* the character class of safePattern
SafeChar ==
  Alpha \cup Digit \cup Hangul \cup Blank
    \cup {"_", "-", "(", ")", ".", ",", "'", "!", "@", "#", "$", "%", "&", "+", "=",
          "[", "]", "{", "}", ".md", "..", "<201>"}

\* name.includes('..')
HasDotDot(name) ==
  \/ Includes1(name, "..")
  \/ \E i \in 1..Len(name) : name[i] = "." /\ At(name, i + 1) \in {".", ".md", ".."}

\* validatePageName: the error, or ""
validatePageName(name) ==
  IF strLength(name) > MAX_NAME_LENGTH THEN "Invalid page name"
  ELSE IF IsBlankLine(name) THEN "Invalid page name"
  ELSE IF \E i \in 1..Len(name) : name[i] \notin SafeChar THEN "Invalid page name"
  ELSE IF HasDotDot(name)
          \/ \E i \in 1..Len(name) :
               name[i] \in {"/", "\\", "<nul>", ":", "*", "?", "\"", "<", ">", "|"}
       THEN "Invalid page name"
  ELSE ""

\* one candidate of resolvePath: "denied", "found" or "next"
TryCandidate(f, candidate) ==
  LET v == validatePath(candidate)
  IN  IF v.err # "" THEN "denied"
      ELSE IF stat(f, v.path) \in {"file", "dir"} THEN "found"
      ELSE "next"

\* resolvePath: [err, path]
resolvePath(f, pathOrName) ==
  LET pagePath == join(pagesPath, pathOrName \o <<".md">>)
      journalPath == join(journalsPath, DashToUnderscore(pathOrName) \o <<".md">>)
      journalPath2 == join(journalsPath, pathOrName \o <<".md">>)
      denied == [err |-> "Access denied", path |-> <<>>]
  IN  IF Includes1(pathOrName, "/") THEN validatePath(join(graphPath, pathOrName))
      ELSE IF TryCandidate(f, pagePath) = "denied" THEN denied
      ELSE IF TryCandidate(f, pagePath) = "found" THEN validatePath(pagePath)
      ELSE IF TryCandidate(f, journalPath) = "denied" THEN denied
      ELSE IF TryCandidate(f, journalPath) = "found" THEN validatePath(journalPath)
      ELSE IF TryCandidate(f, journalPath2) = "denied" THEN denied
      ELSE IF TryCandidate(f, journalPath2) = "found" THEN validatePath(journalPath2)
      ELSE [err |-> "Page not found", path |-> <<>>]

\* the loop of collectAllPages over one folder, from entry i on; a readFile
\* that throws leaves the loop (the folder's try block)
RECURSIVE CollectFolder(_, _, _, _)
CollectFolder(f, folder, files, i) ==
  IF i > Len(files) THEN <<>>
  ELSE LET file == files[i]
           filePath == folder \o <<file>>
           stats == lstat(f, filePath)
           content == readFile(f, filePath)
       IN  IF ~IsMd(file) THEN CollectFolder(f, folder, files, i + 1)
           ELSE IF stats # "file" /\ stats # "dir"
                THEN CollectFolder(f, folder, files, i + 1)
           ELSE IF content.err # "" THEN <<>>
           ELSE << [path |-> <<folder[Len(folder)], file>>,
                    name |-> basename(filePath),
                    tags |-> extractTags(content.text),
                    links |-> extractLinks(content.text),
                    backlinks |-> <<>>,
                    isJournal |-> (folder = journalsPath)] >>
                \o CollectFolder(f, folder, files, i + 1)

\* an index built from the pages folder alone
collectPagesOnly(f) ==
  CollectFolder(f, pagesPath, readdir(f, pagesPath).files, 1)

collectAllPages(f) ==
  CollectFolder(f, pagesPath, readdir(f, pagesPath).files, 1)
    \o CollectFolder(f, journalsPath, readdir(f, journalsPath).files, 1)

\* the file contents collectAllPages read to build these entries
ReadsOf(pages) == {<<"read", graphPath \o m.path>> : m \in Range(pages)}

CollectReads(f) == ReadsOf(collectAllPages(f))

MapGet(m, k) == IF k \in DOMAIN m THEN m[k] ELSE <<>>

\* a map whose lists grow at the front
MapPushFront(m, k, x) ==
  [kk \in DOMAIN m \cup {k} |-> IF kk = k THEN <<x>> \o MapGet(m, k) ELSE m[kk]]

MapPush(m, k, x) ==
  [kk \in DOMAIN m \cup {k} |-> IF kk = k THEN Append(MapGet(m, k), x) ELSE m[kk]]

\* backlinksMap after the pages from index i on, and of page i the links from j on
RECURSIVE BuildBacklinks(_, _, _, _)
BuildBacklinks(allPages, i, j, map) ==
  IF i > Len(allPages) THEN map
  ELSE IF j > Len(allPages[i].links) THEN BuildBacklinks(allPages, i + 1, 1, map)
  ELSE BuildBacklinks(allPages, i, j + 1,
                      MapPush(map, allPages[i].links[j], allPages[i].name))

SelectPages(pages, Keep(_)) ==
  LET F[i \in 0..Len(pages)] ==
        IF i = 0 THEN <<>>
        ELSE IF Keep(pages[i]) THEN Append(F[i - 1], pages[i]) ELSE F[i - 1]
  IN  F[Len(pages)]

\* listPages(folder); folder "" is the absent argument
listPagesFrom(f, folder, map0) ==
  LET allPages == collectAllPages(f)
      backlinksMap == BuildBacklinks(allPages, 1, 1, map0)
      filteredPages ==
        IF folder = "journals" THEN SelectPages(allPages, LAMBDA p : p.isJournal)
        ELSE IF folder = "pages" THEN SelectPages(allPages, LAMBDA p : ~p.isJournal)
        ELSE allPages
  IN  [i \in 1..Len(filteredPages) |->
         [filteredPages[i] EXCEPT !.backlinks = MapGet(backlinksMap, filteredPages[i].name)]]

\* no listPages result is at hand
NotListed == [folder |-> "-", val |-> <<>>, again |-> FALSE]

\* listPages with a backlinksMap kept between calls: a call that follows
\* another starts from the map the first one built
listPagesKept(f, folder) ==
  listPagesFrom(f, folder,
                IF hist.listed = NotListed THEN <<>>
                ELSE BuildBacklinks(collectAllPages(f), 1, 1, <<>>))

\* the map is a local of the call: it starts empty
listPages(f, folder) == listPagesFrom(f, folder, <<>>)

Names(pages) == [i \in 1..Len(pages) |-> pages[i].name]

\* readPage
readPage(f, pathOrName) ==
  LET r == resolvePath(f, pathOrName)
      filePath == r.path
      file == readFile(f, filePath)
      name == basename(filePath)
      parsed == parseProperties(file.text)
      allPages == collectAllPages(f)
  IN  IF r.err # "" THEN Err(f, r.err, {})
      ELSE IF checkSymlink(f, filePath) # "" THEN Err(f, checkSymlink(f, filePath), {})
      ELSE IF file.err # "" THEN Err(f, file.err, {})
      ELSE Ok(f, [path |-> Relative(filePath),
                  name |-> name,
                  content |-> parsed.body,
                  properties |-> parsed.properties,
                  tags |-> extractTags(file.text),
                  links |-> extractLinks(file.text),
                  backlinks |-> Names(SelectPages(allPages, LAMBDA p : name \in Range(p.links))),
                  isJournal |-> InJournals(filePath)],
              {<<"read", file.at>>} \cup ReadsOf(allPages))

\* the read that ends a write: its result, with the accesses made before it
ThenRead(f, pathOrName, acc) ==
  [readPage(f, pathOrName) EXCEPT !.acc = @ \cup acc]

\* createPage writing with the default flag 'w' in place of 'wx'
createWriteNoExcl(f, filePath, text) == writeFile(f, filePath, text)

\* writeFile with flag 'wx', as createPage calls it
createWrite(f, filePath, text) == writeFileExcl(f, filePath, text)

\* createPage
createPage(f, name, content, properties) ==
  LET filePath == join(pagesPath, name \o <<".md">>)
      made == mkdir(f, pagesPath)
      f1 == made.fs
      built == buildContent(content, properties)
      w == createWrite(f1, filePath, built.text)
  IN  IF validatePageName(name) # "" THEN Err(f, validatePageName(name), {})
      ELSE IF validatePath(filePath).err # "" THEN Err(f, validatePath(filePath).err, {})
      ELSE IF validateContentSize(content) # "" THEN Err(f, validateContentSize(content), {})
      ELSE IF made.err # "" THEN Err(f, made.err, {})
      ELSE IF checkSymlink(f1, filePath) # "" THEN Err(f1, checkSymlink(f1, filePath), {})
      ELSE IF built.err # "" THEN Err(f1, built.err, {})
      ELSE IF w.err = "EEXIST" THEN Err(f1, "Page already exists", {})
      ELSE IF w.err # "" THEN Err(f1, w.err, {})
      ELSE ThenRead(w.fs, name, {<<"write", w.at>>})

\* an update that keeps the lines the file held and adds the new text to them
updateWriteMerge(f, filePath, text) ==
  writeFile(f, filePath, readFile(f, filePath).text \o <<"\n">> \o text)

\* writeFile(filePath, fullContent, 'utf-8'), as updatePage calls it
updateWrite(f, filePath, text) == writeFile(f, filePath, text)

\* updatePage
updatePage(f, pathOrName, content, properties) ==
  LET r == resolvePath(f, pathOrName)
      filePath == r.path
      built == buildContent(content, properties)
      w == updateWrite(f, filePath, built.text)
  IN  IF validateContentSize(content) # "" THEN Err(f, validateContentSize(content), {})
      ELSE IF r.err # "" THEN Err(f, r.err, {})
      ELSE IF checkSymlink(f, filePath) # "" THEN Err(f, checkSymlink(f, filePath), {})
      ELSE IF built.err # "" THEN Err(f, built.err, {})
      ELSE IF w.err # "" THEN Err(f, w.err, {})
      ELSE ThenRead(w.fs, pathOrName, {<<"write", w.at>>})

\* deletePage
deletePage(f, pathOrName) ==
  LET r == resolvePath(f, pathOrName)
      filePath == r.path
      u == unlink(f, filePath)
  IN  IF r.err # "" THEN Err(f, r.err, {})
      ELSE IF checkSymlink(f, filePath) # "" THEN Err(f, checkSymlink(f, filePath), {})
      ELSE IF u.err # "" THEN Err(f, u.err, {})
      ELSE Ok(u.fs, NoVal, {<<"unlink", filePath>>})

\* appendToPage
appendToPage(f, pathOrName, content) ==
  LET r == resolvePath(f, pathOrName)
      filePath == r.path
      existing == readFile(f, filePath)
      newContent == trimEnd(existing.text) \o <<"\n">> \o content
      w == writeFile(f, filePath, newContent)
  IN  IF validateContentSize(content) # "" THEN Err(f, validateContentSize(content), {})
      ELSE IF r.err # "" THEN Err(f, r.err, {})
      ELSE IF checkSymlink(f, filePath) # "" THEN Err(f, checkSymlink(f, filePath), {})
      ELSE IF existing.err # "" THEN Err(f, existing.err, {})
      ELSE IF validateContentSize(newContent) # ""
           THEN Err(f, validateContentSize(newContent), {<<"read", existing.at>>})
      ELSE IF w.err # "" THEN Err(f, w.err, {<<"read", existing.at>>})
      ELSE ThenRead(w.fs, pathOrName, {<<"read", existing.at>>, <<"write", w.at>>})

\* getBacklinks
getBacklinks(f, pathOrName) ==
  LET page == readPage(f, pathOrName)
      allPages == listPages(f, "")
  IN  IF ~page.ok THEN page
      ELSE Ok(f, SelectPages(allPages, LAMBDA p : page.val.name \in Range(p.links)),
              page.acc)


(***************************************************************************)
(* getGraph                                                                *)
(***************************************************************************)
NodeIds(g) == {g.nodes[i].id : i \in 1..Len(g.nodes)}

\* addNode: a known id is left alone
addNode(g, id, name, type) ==
  IF id \in NodeIds(g) THEN g
  ELSE [g EXCEPT !.nodes = Append(@, [id |-> id, name |-> name, type |-> type])]

addEdge(g, source, target, type) ==
  [g EXCEPT !.edges = Append(@, [source |-> source, target |-> target, type |-> type])]

\* `tag:${tag}`
TagId(tag) == <<"tag:">> \o tag

\* whether a neighbour of a node at this depth is put on the queue
Enqueues(depth, maxDepth) == depth < maxDepth

\* the three loops of one expansion step, over [g, queue]
RECURSIVE AddLinks(_, _, _, _, _)
AddLinks(st, page, i, depth, maxDepth) ==
  IF i > Len(page.links) THEN st
  ELSE LET link == page.links[i]
           g1 == addEdge(addNode(st.g, link, link, "page"), page.name, link, "link")
       IN  AddLinks([g |-> g1,
                     queue |-> IF Enqueues(depth, maxDepth)
                               THEN Append(st.queue, [name |-> link, depth |-> depth + 1])
                               ELSE st.queue],
                    page, i + 1, depth, maxDepth)

RECURSIVE AddBacklinks(_, _, _, _, _)
AddBacklinks(st, page, i, depth, maxDepth) ==
  IF i > Len(page.backlinks) THEN st
  ELSE LET backlink == page.backlinks[i]
           g1 == addEdge(addNode(st.g, backlink, backlink, "page"),
                         backlink, page.name, "backlink")
       IN  AddBacklinks([g |-> g1,
                         queue |-> IF Enqueues(depth, maxDepth)
                                   THEN Append(st.queue, [name |-> backlink, depth |-> depth + 1])
                                   ELSE st.queue],
                        page, i + 1, depth, maxDepth)

RECURSIVE AddTags(_, _, _)
AddTags(g, page, i) ==
  IF i > Len(page.tags) THEN g
  ELSE AddTags(addEdge(addNode(g, TagId(page.tags[i]), page.tags[i], "tag"),
                       page.name, TagId(page.tags[i]), "tag"),
               page, i + 1)

NodeType(page) == IF page.isJournal THEN "journal" ELSE "page"

\* pages.find(p => p.name === name): the index of the first, or 0
FindPage(pages, name) ==
  IF \E i \in 1..Len(pages) : pages[i].name = name
  THEN CHOOSE i \in 1..Len(pages) :
         pages[i].name = name /\ \A j \in 1..(i - 1) : pages[j].name # name
  ELSE 0

\* the while loop of the centered branch
RECURSIVE Traverse(_, _, _, _, _)
Traverse(pages, queue, visited, g, maxDepth) ==
  IF queue = <<>> THEN g
  ELSE LET name == Head(queue).name
           depth == Head(queue).depth
           at == FindPage(pages, name)
           page == pages[at]
           st1 == AddLinks([g |-> addNode(g, name, name, NodeType(page)),
                            queue |-> Tail(queue)], page, 1, depth, maxDepth)
           st2 == AddBacklinks(st1, page, 1, depth, maxDepth)
       IN  IF name \in visited \/ depth > maxDepth
           THEN Traverse(pages, Tail(queue), visited, g, maxDepth)
           ELSE IF at = 0
           THEN Traverse(pages, Tail(queue), visited \cup {name}, g, maxDepth)
           ELSE Traverse(pages, st2.queue, visited \cup {name},
                         AddTags(st2.g, page, 1), maxDepth)

\* the for loop of the full graph
RECURSIVE FullGraph(_, _, _)
FullGraph(pages, i, g) ==
  IF i > Len(pages) THEN g
  ELSE LET page == pages[i]
           st == AddLinks([g |-> addNode(g, page.name, page.name, NodeType(page)),
                           queue |-> <<>>], page, 1, 0, 0)
       IN  FullGraph(pages, i + 1, AddTags(st.g, page, 1))

Max(a, b) == IF a > b THEN a ELSE b

Min(a, b) == IF a < b THEN a ELSE b

\* getGraph(options): center <<>> is the absent (or empty) center, and
\* options.depth is [has, n]
getGraph(f, center, depth) ==
  LET pages == listPages(f, "")
      empty == [nodes |-> <<>>, edges |-> <<>>]
      requestedDepth == IF depth.has THEN depth.n ELSE 1
      maxDepth == Max(0, Min(requestedDepth, MAX_DEPTH))
  IN  Ok(f,
         IF center # <<>>
         THEN Traverse(pages, <<[name |-> center, depth |-> 0]>>, {}, empty, maxDepth)
         ELSE FullGraph(pages, 1, empty),
         CollectReads(f))


(***************************************************************************)
(* Calls.  `last` is the record of the call that returned last, and `hist` *)
(* what earlier calls left to compare it with:                             *)
(*   created  the name a successful createPage made, when it was the call  *)
(*            before the last one and that one is a createPage too         *)
(*   listed   the result of listPages when it was the last call and left   *)
(*            the tree as it was, and whether the call before it was a     *)
(*            listPages too                                                *)
(*   removed  the <<source name, target>> links the last change of the     *)
(*            tree took away, kept for the call that follows the change    *)
(***************************************************************************)
NoOpt == ""

WriteOps == {"createPage", "updatePage", "appendToPage", "deletePage"}

Idle ==
  [op |-> "none", arg |-> <<>>, content |-> <<>>, props |-> <<>>, opt |-> NoOpt,
   ok |-> TRUE, err |-> "", val |-> NoVal, acc |-> {}]

NoHist == [created |-> <<>>, listed |-> NotListed, removed |-> {}]

\* the documents the index is about: the regular .md files of the two folders
Docs(f) ==
  {p \in DOMAIN f : /\ Len(p) > 0
                    /\ Parent(p) \in {pagesPath, journalsPath}
                    /\ f[p].k = "file"
                    /\ IsMd(p[Len(p)])}

\* <<A, B>>: a document named A holds a link to B
LinkPairs(f) ==
  UNION {{<<basename(p), l>> : l \in Range(extractLinks(f[p].text))} : p \in Docs(f)}

Return(op, arg, content, props, opt, result) ==
  \E r \in {result} :
    /\ fs' = r.fs
    /\ last' = [op |-> op, arg |-> arg, content |-> content, props |-> props,
                opt |-> opt, ok |-> r.ok, err |-> r.err, val |-> r.val, acc |-> r.acc]
    /\ hist' = [created |-> IF op = "createPage" /\ last.op = "createPage" /\ last.ok
                            THEN last.arg ELSE <<>>,
                listed |-> IF r.fs # fs THEN NotListed
                           ELSE IF op = "listPages"
                                THEN [folder |-> opt, val |-> r.val,
                                      again |-> hist.listed # NotListed]
                           ELSE NotListed,
                removed |-> IF r.fs # fs THEN LinkPairs(fs) \ LinkPairs(r.fs)
                            ELSE IF last.op \in WriteOps THEN hist.removed
                            ELSE {}]
    /\ UNCHANGED procs

DoListPages(folder) ==
  Return("listPages", <<>>, <<>>, <<>>, folder,
         LET pages == listPages(fs, folder) IN Ok(fs, pages, CollectReads(fs)))

DoReadPage(pathOrName) ==
  Return("readPage", pathOrName, <<>>, <<>>, NoOpt, readPage(fs, pathOrName))

DoCreatePage(name, content, properties) ==
  Return("createPage", name, content, properties, NoOpt,
         createPage(fs, name, content, properties))

DoUpdatePage(pathOrName, content, properties) ==
  Return("updatePage", pathOrName, content, properties, NoOpt,
         updatePage(fs, pathOrName, content, properties))

DoDeletePage(pathOrName) ==
  Return("deletePage", pathOrName, <<>>, <<>>, NoOpt, deletePage(fs, pathOrName))

DoAppendToPage(pathOrName, content) ==
  Return("appendToPage", pathOrName, content, <<>>, NoOpt,
         appendToPage(fs, pathOrName, content))

DoGetBacklinks(pathOrName) ==
  Return("getBacklinks", pathOrName, <<>>, <<>>, NoOpt, getBacklinks(fs, pathOrName))

DoGetGraph(center, depth) ==
  Return("getGraph", center, <<>>, <<>>, depth, getGraph(fs, center, depth))

\* the processes of the concurrent specifications, at rest
NoProcs == <<>>

(***************************************************************************)
(* Inputs                                                                  *)
(***************************************************************************)
\* how many page names the calls draw from
MaxNames == 2

NamePool == << <<"A">>, <<"B">>, <<"C">>, <<"N">> >>

PageNames == {NamePool[i] : i \in 1..Min(MaxNames, Len(NamePool))}

LinkTo(name) == <<"[", "[">> \o name \o <<"]", "]">>

Tag(t) == <<"#">> \o t

\* a tree with the graph root alone
EmptyTree == (graphPath :> Dir)

\* a graph root with its two folders
BareTree == EmptyTree @@ (pagesPath :> Dir) @@ (journalsPath :> Dir)

PagePath(name) == pagesPath \o <<name \o <<".md">>>>

JournalPath(name) == journalsPath \o <<name \o <<".md">>>>

(***************************************************************************)
(* The document store: createPage, updatePage, readPage, deletePage         *)
(***************************************************************************)
\* content above the cap by one byte
Oversize == <<BigChunk, "x">>

\* what createPage and updatePage are given: content and properties
StoreWrites ==
  { [content |-> <<"x">>, props |-> <<>>],
    [content |-> <<"y">>, props |-> <<>>],
    [content |-> <<"x">>, props |-> << << <<"k">>, <<"v">> >> >>],
    [content |-> <<"x">>, props |-> << << <<"k", "1">>, <<"v">> >> >>],
    [content |-> Oversize, props |-> <<>>] }

StoreInit ==
  /\ fs \in {EmptyTree, BareTree @@ (PagePath(<<"B">>) :> File(<<"x">>))}
  /\ last = Idle
  /\ hist = NoHist
  /\ procs = NoProcs

StoreCreate == \E n \in PageNames, w \in StoreWrites : DoCreatePage(n, w.content, w.props)

StoreUpdate == \E n \in PageNames, w \in StoreWrites : DoUpdatePage(n, w.content, w.props)

StoreRead == \E n \in PageNames : DoReadPage(n)

StoreDelete == \E n \in PageNames : DoDeletePage(n)

StoreNext == StoreCreate \/ StoreUpdate \/ StoreRead \/ StoreDelete

SpecStore == StoreInit /\ [][StoreNext]_vars


(***************************************************************************)
(* Claims about the document store                                         *)
(***************************************************************************)
\* the properties of a document as a set of <<key, value>>
PropSet(ps) == Range(ps)

CreateCase(l) == l.op = "createPage" /\ validatePageName(l.arg) = ""

\* what C1 says of a createPage call that returns `next` from a tree `f` after
\* the call `before`
CreateTwice(f, f2, before, next) ==
  /\ Kind(f, PagePath(next.arg)) = "none"
       => /\ next.ok
          /\ Kind(f2, PagePath(next.arg)) = "file"
          /\ f2[PagePath(next.arg)].text = buildContent(next.content, next.props).text
  /\ (before.op = "createPage" /\ before.ok /\ before.arg = next.arg)
       => /\ ~next.ok
          /\ next.err = "Page already exists"
          /\ f2[PagePath(next.arg)] = f[PagePath(next.arg)]
          /\ f[PagePath(next.arg)].text
               = buildContent(before.content, before.props).text

\* C1 as stated: for every valid name I with no pages/I.md, createPage(I, c)
\* succeeds, and a createPage(I, c') right after it fails with 'Page already
\* exists' and leaves the stored text as the first call wrote it -- for every
\* content c and c'.
C1_AsStated ==
  [][CreateCase(last') => CreateTwice(fs, fs', last, last')]_vars

\* C1 as amended: the same, for contents c and c' within the 10 MiB cap.
C1_CreateTwice ==
  [][(CreateCase(last') /\ validateContentSize(last'.content) = "")
       => CreateTwice(fs, fs', last, last')]_vars

\* a second createPage of the name the call before it created has been turned
\* down, and the file still holds the text of the first, not of the second
C1_Witness ==
  /\ last.op = "createPage"
  /\ hist.created = last.arg
  /\ last.err = "Page already exists"
  /\ validateContentSize(last.content) = ""
  /\ fs[PagePath(last.arg)].text # buildContent(last.content, last.props).text

\* C8 as stated: after createPage(I, c, ps) or updatePage(I, c, ps) succeeds,
\* the returned document and a following readPage(I) have content c and
\* exactly the properties ps.
C8_RoundTrip ==
  (last.op \in {"createPage", "updatePage"} /\ last.ok)
    => /\ last.val.content = last.content
       /\ PropSet(last.val.properties) = PropSet(last.props)
       /\ readPage(fs, last.arg).val.content = last.content
       /\ PropSet(readPage(fs, last.arg).val.properties) = PropSet(last.props)


(***************************************************************************)
(* Path resolution: readPage, updatePage, appendToPage and deletePage on   *)
(* a tree that holds symbolic links and a file outside the graph root      *)
(***************************************************************************)
\* how many lines appendToPage may grow a document to
MaxLines == 2

Outside == << <<"etc">>, <<"passwd">> >>

\* pages/A.md, pages/L.md -> /etc/passwd, pages/D.md -> a path with no entry,
\* journals/D.md, journals/2_1.md, and /etc/passwd outside the root
PathTree ==
  BareTree
    @@ (PagePath(<<"A">>) :> File(<<"x">>))
    @@ (PagePath(<<"L">>) :> Link(Outside))
    @@ (PagePath(<<"D">>) :> Link(PagePath(<<"C">>)))
    @@ (JournalPath(<<"D">>) :> File(<<"x">>))
    @@ (JournalPath(<<"2", "_", "1">>) :> File(<<"x">>))
    @@ (<< <<"etc">> >> :> Dir)
    @@ (Outside :> File(<<"s">>))

PathArgs ==
  { <<"A">>,
    <<"pages", "/", "A", ".md">>,
    <<"..", "/", "etc", "/", "passwd">>,
    <<"/", "etc", "/", "passwd">>,
    <<"L">>,
    <<"pages", "/", "L", ".md">>,
    <<"D">>,
    <<"N">>,
    <<"pages", "/", "N", ".md">>,
    <<"2", "-", "1">> }

PathInit ==
  /\ fs = PathTree
  /\ last = Idle
  /\ hist = NoHist
  /\ procs = NoProcs

\* the lines of the document a call on p would reach, 0 when it reaches none
LinesAt(f, p) ==
  IF resolvePath(f, p).err = "" /\ readFile(f, resolvePath(f, p).path).err = ""
  THEN Len(Split(readFile(f, resolvePath(f, p).path).text, "\n")) ELSE 0

PathRead == \E a \in PathArgs : DoReadPage(a)

PathUpdate == \E a \in PathArgs : DoUpdatePage(a, <<"x">>, <<>>)

PathAppend == \E a \in PathArgs : LinesAt(fs, a) < MaxLines /\ DoAppendToPage(a, <<"y">>)

PathDelete == \E a \in PathArgs : DoDeletePage(a)

PathNext == PathRead \/ PathUpdate \/ PathAppend \/ PathDelete

SpecPath == PathInit /\ [][PathNext]_vars

(***************************************************************************)
(* Claims about path resolution                                            *)
(***************************************************************************)
IsPathCall(l) == l.op \in {"readPage", "updatePage", "appendToPage", "deletePage"}

\* the argument, read as a path of its own, is absolute and outside the root
AbsoluteOutside(p) ==
  At(p, 1) = "/" /\ ~IsPrefix(graphPath, normalizeFrom(<<>>, Split(p, "/")))

\* the argument holds "../" and leads out of the root
TraversalOutside(p) ==
  Includes2(p, "..", "/") /\ ~IsPrefix(graphPath, join(graphPath, p))

\* the file the argument names is a symbolic link
NamesLink(f, p) ==
  IF Includes1(p, "/") THEN Kind(f, join(graphPath, p)) = "link"
  ELSE Kind(f, PagePath(p)) = "link"

Hostile(f, p) == AbsoluteOutside(p) \/ TraversalOutside(p) \/ NamesLink(f, p)

\* C5 as stated: readPage, updatePage, appendToPage and deletePage fail with
\* 'Access denied' on an argument with '../' traversal out of the root, an
\* absolute path outside the root, or a path that is a symbolic link; no file
\* outside the root is read, written or removed, and the call does not
\* resolve to some other file instead.
C5_HostileDenied ==
  [][(IsPathCall(last') /\ Hostile(fs, last'.arg))
       => /\ ~last'.ok
          /\ last'.err = "Access denied"
          /\ last'.acc = {}
          /\ fs' = fs]_vars

\* the candidates of C9, in its order
Candidates(p) ==
  (IF Includes1(p, "/") THEN <<join(graphPath, p)>> ELSE <<>>)
    \o <<join(pagesPath, p \o <<".md">>),
         join(journalsPath, DashToUnderscore(p) \o <<".md">>),
         join(journalsPath, p \o <<".md">>)>>

Exists(f, c) == IsPrefix(graphPath, c) /\ stat(f, c) \in {"file", "dir"}

\* C9 as stated: readPage(p) returns the first candidate that exists (p under
\* the root when p holds a separator, pages/p.md, journals/<p with _>.md,
\* journals/p.md), and fails with 'Page not found' whenever none exists.
C9_FirstCandidateOrNotFound ==
  [][last'.op = "readPage"
       => LET cs == Candidates(last'.arg)
              hits == {i \in 1..Len(cs) : Exists(fs, cs[i])}
              first == CHOOSE i \in hits : \A j \in hits : i <= j
          IN  IF hits = {} THEN ~last'.ok /\ last'.err = "Page not found"
              ELSE last'.ok => last'.val.path = Relative(cs[first])]_vars


(***************************************************************************)
(* The index: listPages, readPage and getBacklinks between createPage,     *)
(* updatePage, appendToPage and deletePage on a page and a journal of one  *)
(* name and the page they link to                                          *)
(***************************************************************************)
IndexTexts == {<<"x">>, LinkTo(<<"B">>)}

\* the page whose links come and go, and the page they lead to
IndexNames == {NamePool[1], NamePool[2]}

\* the journal of the first name, by its path
IndexJournal == <<"journals", "/">> \o NamePool[1] \o <<".md">>

IndexArgs == IndexNames \cup {IndexJournal}

IndexFolders == {""}

IndexInit ==
  /\ fs \in {EmptyTree, BareTree}
  /\ last = Idle
  /\ hist = NoHist
  /\ procs = NoProcs

IndexCreate == \E n \in IndexNames, t \in IndexTexts : DoCreatePage(n, t, <<>>)

IndexUpdate ==
  \/ \E n \in IndexNames, t \in IndexTexts : DoUpdatePage(n, t, <<>>)
  \/ DoUpdatePage(IndexJournal, LinkTo(<<"B">>), <<>>)

IndexAppend ==
  LinesAt(fs, NamePool[1]) < MaxLines /\ DoAppendToPage(NamePool[1], LinkTo(<<"B">>))

IndexDelete == \E a \in IndexArgs : DoDeletePage(a)

IndexList == \E folder \in IndexFolders : DoListPages(folder)

\* the backlink queries are made of the page the texts link to
IndexRead == DoReadPage(<<"B">>)

IndexBacklinks == DoGetBacklinks(<<"B">>)

IndexNext ==
  \/ IndexCreate
  \/ IndexUpdate
  \/ IndexAppend
  \/ IndexDelete
  \/ IndexList
  \/ IndexRead
  \/ IndexBacklinks

SpecIndex == IndexInit /\ [][IndexNext]_vars


(***************************************************************************)
(* Claims about the index                                                  *)
(***************************************************************************)
\* the names of the documents now in pages/ and journals/ that link to b
BacklinkNames(f, b) == {pr[1] : pr \in {q \in LinkPairs(f) : q[2] = b}}

NoDuplicate(s) == \A i, j \in 1..Len(s) : s[i] = s[j] => i = j

\* C3 as stated: in every result of listPages(), every returned document A
\* has in A.backlinks exactly the names of the documents whose links hold
\* A.name, each name once.
C3_BacklinksExact ==
  (last.op = "listPages" /\ last.opt = "")
    => \A i \in 1..Len(last.val) :
         /\ Range(last.val[i].backlinks)
              = {last.val[j].name :
                   j \in {k \in 1..Len(last.val) :
                            last.val[i].name \in Range(last.val[k].links)}}
         /\ NoDuplicate(last.val[i].backlinks)

\* the document a backlink query is about, and the names it gave
QueryTarget ==
  IF last.op = "readPage" THEN last.val.name
  ELSE basename(resolvePath(fs, last.arg).path)

QueryNames ==
  IF last.op = "readPage" THEN Range(last.val.backlinks)
  ELSE {p.name : p \in Range(last.val)}

\* C4: a listPages, readPage or getBacklinks result holds, as the backlinks of
\* a document B, the names of the documents whose text now links to B and no
\* other name: a link that the last write or delete took away is not there.
C4_BacklinksFresh ==
  /\ last.op = "listPages"
       => \A i \in 1..Len(last.val) :
            /\ Range(last.val[i].backlinks) = BacklinkNames(fs, last.val[i].name)
            /\ \A pr \in hist.removed :
                 pr[2] = last.val[i].name => pr[1] \notin Range(last.val[i].backlinks)
  /\ (last.op \in {"readPage", "getBacklinks"} /\ last.ok)
       => /\ QueryNames = BacklinkNames(fs, QueryTarget)
          /\ \A pr \in hist.removed : pr[2] = QueryTarget => pr[1] \notin QueryNames

\* updatePage has taken the link to B out of a page that is still there, B
\* is still linked to from elsewhere, and getBacklinks(B) has answered since
C4_Witness ==
  /\ last.op = "getBacklinks"
  /\ last.ok
  /\ last.arg = <<"B">>
  /\ <<NamePool[1], <<"B">>>> \in hist.removed
  /\ PagePath(NamePool[1]) \in Docs(fs)
  /\ QueryNames # {}

GraphTexts ==
  { LinkTo(<<"B">>) \o <<" ">> \o Tag(<<"t">>),
    LinkTo(<<"A">>),
    LinkTo(<<"tag:", "t">>) \o <<" ">> \o Tag(<<"t">>),
    <<"x">> }

NoDepth == [has |-> FALSE, n |-> 0]

Depth(n) == [has |-> TRUE, n |-> n]

GraphDepths == {NoDepth, Depth(0), Depth(1)}

GraphInit ==
  /\ fs = BareTree
  /\ last = Idle
  /\ hist = NoHist
  /\ procs = NoProcs

GraphCreate == \E n \in PageNames, t \in GraphTexts : DoCreatePage(n, t, <<>>)

GraphUpdate == \E n \in PageNames, t \in GraphTexts : DoUpdatePage(n, t, <<>>)

GraphDelete == \E n \in PageNames : DoDeletePage(n)

GraphGet == \E c \in PageNames \cup {<<>>}, d \in GraphDepths : DoGetGraph(c, d)

GraphNext == GraphCreate \/ GraphUpdate \/ GraphDelete \/ GraphGet

SpecGraph == GraphInit /\ [][GraphNext]_vars

(***************************************************************************)
(* Claims about the graph view                                             *)
(***************************************************************************)
\* the last call is getGraph({center: C, depth: d}) and pages/C.md is there
CenteredAt(d) ==
  /\ last.op = "getGraph"
  /\ last.arg # <<>>
  /\ last.opt = Depth(d)
  /\ PagePath(last.arg) \in Docs(fs)

CenterTags == extractTags(fs[PagePath(last.arg)].text)

CenterLinks == extractLinks(fs[PagePath(last.arg)].text)

CenterNode == [id |-> last.arg, name |-> last.arg, type |-> "page"]

TagNodes == {[id |-> TagId(t), name |-> t, type |-> "tag"] : t \in Range(CenterTags)}

TagEdges ==
  {[source |-> last.arg, target |-> TagId(t), type |-> "tag"] : t \in Range(CenterTags)}

\* C6 as stated: getGraph({center: C, depth: 0}) for an existing document C
\* returns the node C, one tag node and one tag edge per tag of C, and
\* nothing else: no node of a link target or backlink source, no link or
\* backlink edge.
C6_DepthZeroCenterOnly ==
  CenteredAt(0)
    => /\ Range(last.val.nodes) = {CenterNode} \cup TagNodes
       /\ Range(last.val.edges) = TagEdges
       /\ NoDuplicate(last.val.nodes)
       /\ NoDuplicate(last.val.edges)

\* C7 as stated: getGraph({center: C, depth: 1}) where C is the only
\* document returns exactly the nodes C, a page node per link and a tag node
\* per tag, and exactly the edges C -> link of type link and C -> tag:T of
\* type tag, none of them twice.
C7_DepthOneExact ==
  (CenteredAt(1) /\ Docs(fs) = {PagePath(last.arg)})
    => /\ Range(last.val.nodes)
            = {CenterNode}
                \cup {[id |-> l, name |-> l, type |-> "page"] : l \in Range(CenterLinks)}
                \cup TagNodes
       /\ Range(last.val.edges)
            = {[source |-> last.arg, target |-> l, type |-> "link"] :
                 l \in Range(CenterLinks)}
                \cup TagEdges
       /\ NoDuplicate(last.val.nodes)
       /\ NoDuplicate(last.val.edges)


(***************************************************************************)
(* Two createPage calls running at once.  A call is suspended at each of   *)
(* its awaits, and the other call may take any number of its own steps     *)
(* there; writeFile with flag 'wx' first opens the file, which fails when  *)
(* the entry exists and creates it empty otherwise, and then writes.       *)
(* procs[p] is the call of p: where it stands, its arguments, the path and *)
(* text readPage holds, how it ended, and whether its checkSymlink found   *)
(* no entry.                                                               *)
(***************************************************************************)
Procs == {1, 2}

ConcContent(p) == IF p = 1 THEN <<"x">> ELSE <<"y">>

NotCalled ==
  [pc |-> "idle", name |-> <<>>, content |-> <<>>, path |-> <<>>, text |-> <<>>,
   ok |-> FALSE, err |-> "", sawNone |-> FALSE]

ConcInit ==
  /\ fs \in {EmptyTree, BareTree @@ (PagePath(<<"B">>) :> File(<<"x">>))}
  /\ last = Idle
  /\ hist = NoHist
  /\ procs = [p \in Procs |-> NotCalled]

\* p moves on to pc, or ends with the error
Step(p, f, pc, err, change) ==
  /\ fs' = f
  /\ procs' = [procs EXCEPT ![p] =
                 IF err # "" THEN [change EXCEPT !.pc = "done", !.ok = FALSE, !.err = err]
                 ELSE [change EXCEPT !.pc = pc]]
  /\ UNCHANGED <<last, hist>>

\* the call is made: validatePageName, validatePath, validateContentSize
CreateCall(p) ==
  /\ procs[p].pc = "idle"
  /\ \E name \in PageNames :
       LET filePath == join(pagesPath, name \o <<".md">>)
           err == IF validatePageName(name) # "" THEN validatePageName(name)
                  ELSE IF validatePath(filePath).err # "" THEN validatePath(filePath).err
                  ELSE validateContentSize(ConcContent(p))
       IN  Step(p, fs, "mkdir", err,
                [procs[p] EXCEPT !.name = name, !.content = ConcContent(p),
                                 !.path = filePath])

\* await mkdir(this.pagesPath, {recursive: true})
CreateMkdir(p) ==
  /\ procs[p].pc = "mkdir"
  /\ LET made == mkdir(fs, pagesPath)
     IN  Step(p, made.fs, "check", made.err, procs[p])

\* await this.checkSymlink(filePath), and buildContent after it
CreateCheck(p) ==
  /\ procs[p].pc = "check"
  /\ LET built == buildContent(procs[p].content, <<>>)
         err == IF checkSymlink(fs, procs[p].path) # ""
                THEN checkSymlink(fs, procs[p].path) ELSE built.err
     IN  Step(p, fs, "open", err,
              [procs[p] EXCEPT !.text = built.text,
                               !.sawNone = (Kind(fs, procs[p].path) = "none")])

\* writeFile(filePath, fullContent, {flag: 'wx'}): the open
CreateOpen(p) ==
  /\ procs[p].pc = "open"
  /\ LET w == createWrite(fs, procs[p].path, <<>>)
         err == IF w.err = "EEXIST" THEN "Page already exists" ELSE w.err
     IN  Step(p, IF err = "" THEN w.fs ELSE fs, "write", err, procs[p])

\* writeFile(filePath, fullContent, {flag: 'wx'}): the write to the opened file
CreateWrite(p) ==
  /\ procs[p].pc = "write"
  /\ LET w == writeFile(fs, procs[p].path, procs[p].text)
     IN  Step(p, w.fs, "resolve", w.err, procs[p])

\* readPage(name): resolvePath
CreateResolve(p) ==
  /\ procs[p].pc = "resolve"
  /\ LET r == resolvePath(fs, procs[p].name)
     IN  Step(p, fs, "recheck", r.err, [procs[p] EXCEPT !.path = r.path])

\* readPage(name): checkSymlink
CreateRecheck(p) ==
  /\ procs[p].pc = "recheck"
  /\ Step(p, fs, "read", checkSymlink(fs, procs[p].path), procs[p])

\* readPage(name): readFile
CreateRead(p) ==
  /\ procs[p].pc = "read"
  /\ LET file == readFile(fs, procs[p].path)
     IN  Step(p, fs, "stat", file.err, [procs[p] EXCEPT !.text = file.text])

\* readPage(name): stat
CreateStat(p) ==
  /\ procs[p].pc = "stat"
  /\ Step(p, fs, "collect",
          IF stat(fs, procs[p].path) \in {"file", "dir"} THEN ""
          ELSE stat(fs, procs[p].path),
          procs[p])

\* readPage(name): collectAllPages, and the return
CreateReturn(p) ==
  /\ procs[p].pc = "collect"
  /\ Step(p, fs, "done", "", [procs[p] EXCEPT !.ok = TRUE])

ConcNext ==
  \E p \in Procs :
    \/ CreateCall(p)
    \/ CreateMkdir(p)
    \/ CreateCheck(p)
    \/ CreateOpen(p)
    \/ CreateWrite(p)
    \/ CreateResolve(p)
    \/ CreateRecheck(p)
    \/ CreateRead(p)
    \/ CreateStat(p)
    \/ CreateReturn(p)

SpecConc == ConcInit /\ [][ConcNext]_vars

(***************************************************************************)
(* Claims about concurrent calls                                           *)
(***************************************************************************)
BothDone(p, q) ==
  /\ p # q
  /\ procs[p].pc = "done"
  /\ procs[q].pc = "done"
  /\ procs[p].name = procs[q].name

\* C2: of two createPage calls for one name, interleaved in any order at
\* their awaits, at most one succeeds; a call that does not succeed fails
\* with 'Page already exists'; and the file holds the content of the call
\* that succeeded.
C2_OneCreateWins ==
  \A p, q \in DOMAIN procs :
    BothDone(p, q)
      => /\ ~(procs[p].ok /\ procs[q].ok)
         /\ ~procs[q].ok => procs[q].err = "Page already exists"
         /\ procs[p].ok
              => /\ Kind(fs, PagePath(procs[p].name)) = "file"
                 /\ fs[PagePath(procs[p].name)].text
                      = buildContent(procs[p].content, <<>>).text
                 /\ procs[p].text = fs[PagePath(procs[p].name)].text

\* both calls found no entry at their symlink check, so both went on to the
\* write, and one has succeeded and the other has failed
C2_Witness ==
  \E p, q \in DOMAIN procs :
    /\ BothDone(p, q)
    /\ procs[p].sawNone
    /\ procs[q].sawNone
    /\ procs[p].ok
    /\ ~procs[q].ok



(***************************************************************************)
(* Search: searchPages over a tree with a hard-linked document, a symbolic *)
(* link and, in one of the two starting trees, a directory named like a    *)
(* document                                                                *)
(***************************************************************************)
\* String.prototype.toLowerCase
toLowerCase(s) ==
  [i \in 1..Len(s) |->
     CASE s[i] = "A" -> "a" [] s[i] = "B" -> "b" [] s[i] = "C" -> "c"
       [] s[i] = "L" -> "l" [] s[i] = "D" -> "d" [] s[i] = "N" -> "n"
       [] OTHER -> s[i]]

\* String.prototype.includes
Includes(s, q) == \E i \in 0..(Len(s) - Len(q)) : SubSeq(s, i + 1, i + Len(q)) = q

\* Array.prototype.slice(start, end) for 0 <= start
Slice(s, start, end) == SubSeq(s, start + 1, Min(end, Len(s)))

\* checkRegularFile: the error, or ""
checkRegularFile(f, filePath) ==
  LET stats == lstat(f, filePath)
  IN  IF stats \notin {"file", "dir", "link"} THEN stats
      ELSE IF stats = "link" THEN "Access denied"
      ELSE IF stats # "file" THEN "Access denied"
      ELSE IF f[filePath].nlink > 1 THEN "Access denied"
      ELSE ""

\* the context of the match on lines[i], i counted from 0 as the loop does
matchContextOneLine(lines, i) == lines[i + 1]

matchContext(lines, i) == Join(Slice(lines, Max(0, i - 1), i + 2), <<"\n">>)

\* the loop over the lines of one document, from index i (counted from 0) on
RECURSIVE LineMatches(_, _, _)
LineMatches(lines, i, queryLower) ==
  IF i >= Len(lines) THEN <<>>
  ELSE (IF Includes(toLowerCase(lines[i + 1]), queryLower)
        THEN << [line |-> i + 1, content |-> lines[i + 1],
                 context |-> matchContext(lines, i)] >>
        ELSE <<>>) \o LineMatches(lines, i + 1, queryLower)

\* whether a document goes to the results
keepResultByLines(page, matches, queryLower) == Len(matches) > 0

keepResult(page, matches, queryLower) ==
  Includes(toLowerCase(page.name), queryLower) \/ Len(matches) > 0

\* the loop over the listed pages, from index k on: [err, results]
RECURSIVE SearchLoop(_, _, _, _, _)
SearchLoop(f, pages, k, tags, queryLower) ==
  IF k > Len(pages) THEN [err |-> "", results |-> <<>>]
  ELSE LET page == pages[k]
           rest == SearchLoop(f, pages, k + 1, tags, queryLower)
           filePath == graphPath \o page.path
           file == readFile(f, filePath)
           lines == Split(file.text, "\n")
           matches == LineMatches(lines, 0, queryLower)
       IN  IF Len(tags) > 0 /\ ~\E j \in 1..Len(tags) : tags[j] \in Range(page.tags)
           THEN rest
           ELSE IF checkRegularFile(f, filePath) # "" THEN rest
           ELSE IF file.err # "" THEN [err |-> file.err, results |-> <<>>]
           ELSE IF rest.err # "" THEN rest
           ELSE IF keepResult(page, matches, queryLower)
                THEN [err |-> "",
                      results |-> << [page |-> page, matches |-> matches] >> \o rest.results]
           ELSE rest

\* searchPages(query, {tags, folder}); tags <<>> and folder "" are absent
searchPages(f, query, tags, folder) ==
  IF strLength(query) > 1000 THEN Err(f, "Search query too long", {})
  ELSE LET pages == listPages(f, folder)
           r == SearchLoop(f, pages, 1, tags, toLowerCase(query))
           acc == CollectReads(f)
                    \cup {<<"read", graphPath \o r.results[i].page.path>> :
                            i \in 1..Len(r.results)}
       IN  IF r.err # "" THEN Err(f, r.err, acc) ELSE Ok(f, r.results, acc)

DoSearchPages(query, tags, folder) ==
  Return("searchPages", query, <<>>, <<>>, [tags |-> tags, folder |-> folder],
         searchPages(fs, query, tags, folder))

SearchLines == <<"b", "\n", "x", "\n", "B", " ", "x", "\n", "y", "\n", "b">>

SearchTexts == {SearchLines, <<"x", " ">> \o Tag(<<"t">>), <<"y">>}

SearchQueries == {<<"B">>, <<"x">>, <<"n">>, <<BigChunk>>}

\* the calls of searchPages: every query alone, one with a tag, one with a folder
SearchCalls ==
  {[query |-> q, tags |-> <<>>, folder |-> ""] : q \in SearchQueries}
    \cup {[query |-> <<"x">>, tags |-> <<<<"t">>>>, folder |-> ""],
          [query |-> <<"B">>, tags |-> <<>>, folder |-> "pages"]}

SearchTree ==
  BareTree
    @@ (PagePath(<<"A">>) :> File(SearchLines))
    @@ (PagePath(<<"B">>) :> HardLinked(SearchLines))
    @@ (PagePath(<<"N">>) :> File(<<"y">>))
    @@ (JournalPath(<<"D">>) :> File(<<"x", " ">> \o Tag(<<"t">>) \o <<"\n", "N">>))
    @@ (JournalPath(<<"L">>) :> Link(PagePath(<<"A">>)))

SearchWritten == {<<"A">>, <<"N">>}

SearchInit ==
  /\ fs \in {SearchTree, SearchTree @@ (PagePath(<<"C">>) :> Dir)}
  /\ last = Idle
  /\ hist = NoHist
  /\ procs = NoProcs

SearchSearch == \E c \in SearchCalls : DoSearchPages(c.query, c.tags, c.folder)

SearchUpdate ==
  \E n \in SearchWritten, t \in SearchTexts :
    DoUpdatePage(<<"pages", "/">> \o n \o <<".md">>, t, <<>>)

SearchDelete == \E n \in SearchWritten : DoDeletePage(n)

SearchNext == SearchSearch \/ SearchUpdate \/ SearchDelete

SpecSearch == SearchInit /\ [][SearchNext]_vars

IsSearch(l) == l.op = "searchPages" /\ l.ok

\* the listed documents that pass the tag filter of the call
Filtered(f, l) ==
  {pg \in Range(listPages(f, l.opt.folder)) :
     l.opt.tags = <<>> \/ \E j \in 1..Len(l.opt.tags) : l.opt.tags[j] \in Range(pg.tags)}

TextOf(f, pg) == f[graphPath \o pg.path].text

\* a plain file with one hard link
Plain(f, p) == p \in DOMAIN f /\ f[p].k = "file" /\ f[p].nlink = 1

LineHas(text, q) ==
  \E i \in 1..Len(Split(text, "\n")) :
    Includes(toLowerCase(Split(text, "\n")[i]), toLowerCase(q))

NameHas(pg, q) == Includes(toLowerCase(pg.name), toLowerCase(q))

Returned(l) == {l.val[i].page.path : i \in 1..Len(l.val)}

\* C11 as stated: every listed document that passes the tag/folder filter is
\* returned if and only if its name or one of its lines contains the query
C11_AsStated ==
  IsSearch(last) =>
    \A pg \in Filtered(fs, last) :
      pg.path \in Returned(last) <=> (NameHas(pg, last.arg) \/ LineHas(TextOf(fs, pg), last.arg))

\* C11: searchPages(q) returns a listed document that passed the tag/folder
\* filter and is a plain file with one hard link if and only if its name
\* contains q or one of its lines contains q, case-insensitively; with a name
\* match and no line match its match list is empty; it returns nothing else.
C11_SearchMatches ==
  IsSearch(last) =>
    /\ \A pg \in Filtered(fs, last) :
         Plain(fs, graphPath \o pg.path) =>
           (pg.path \in Returned(last)
              <=> (NameHas(pg, last.arg) \/ LineHas(TextOf(fs, pg), last.arg)))
    /\ \A i \in 1..Len(last.val) :
         /\ last.val[i].page \in Filtered(fs, last)
         /\ Plain(fs, graphPath \o last.val[i].page.path)
         /\ ~LineHas(TextOf(fs, last.val[i].page), last.arg) => last.val[i].matches = <<>>

\* a document came back for its name alone, and another one for a line alone
C11_Witness ==
  /\ IsSearch(last)
  /\ \E i, j \in 1..Len(last.val) :
       /\ last.val[i].matches = <<>>
       /\ NameHas(last.val[i].page, last.arg)
       /\ last.val[j].matches # <<>>
       /\ ~NameHas(last.val[j].page, last.arg)

LinesOf(f, pg) == Split(TextOf(f, pg), "\n")

\* C12: in every returned document each line i (counted from 1) that contains
\* the query case-insensitively has exactly one match, with line = i, the
\* line's own text as content and lines max(1, i-1) .. min(last, i+1) joined
\* by newlines as context; a line that does not contain the query has none.
C12_LineMatches ==
  IsSearch(last) =>
    \A k \in 1..Len(last.val) :
      LET lines == LinesOf(fs, last.val[k].page)
          ms == last.val[k].matches
      IN  /\ \A i \in 1..Len(lines) :
               Cardinality({j \in 1..Len(ms) : ms[j].line = i})
                 = IF Includes(toLowerCase(lines[i]), toLowerCase(last.arg)) THEN 1 ELSE 0
          /\ \A j \in 1..Len(ms) :
               /\ ms[j].line \in 1..Len(lines)
               /\ ms[j].content = lines[ms[j].line]
               /\ ms[j].context
                    = Join(SubSeq(lines, Max(1, ms[j].line - 1),
                                  Min(Len(lines), ms[j].line + 1)), <<"\n">>)

\* one document gave a match on its first line, one in the middle and one on
\* its last line, the query in another case than the text, and has lines
\* without a match
C12_Witness ==
  /\ IsSearch(last)
  /\ \E k \in 1..Len(last.val) :
       LET lines == LinesOf(fs, last.val[k].page)
           ms == last.val[k].matches
       IN  /\ Len(lines) = 5
           /\ Len(ms) = 3
           /\ ms[1].line = 1 /\ ms[1].content # last.arg
           /\ ms[2].line = 3 /\ Len(Split(ms[2].context, "\n")) = 3
           /\ ms[3].line = 5 /\ Len(Split(ms[3].context, "\n")) = 2
\* the documents of the folders the call searches
InFolder(p, folder) ==
  \/ folder \notin {"pages", "journals"}
  \/ folder = "pages" /\ Parent(p) = pagesPath
  \/ folder = "journals" /\ Parent(p) = journalsPath

\* the plain single-link documents that pass the filters and match the query
SafeMatching(f, l) ==
  {p \in Docs(f) :
     /\ InFolder(p, l.opt.folder)
     /\ Plain(f, p)
     /\ l.opt.tags = <<>>
          \/ \E j \in 1..Len(l.opt.tags) : l.opt.tags[j] \in Range(extractTags(f[p].text))
     /\ \/ Includes(toLowerCase(basename(p)), toLowerCase(l.arg))
        \/ LineHas(f[p].text, l.arg)}

\* an entry named like a document that is a symbolic link, not a regular file,
\* or has more than one hard link
Unsafe(f) ==
  {p \in DOMAIN f : /\ Len(p) > 0
                    /\ Parent(p) \in {pagesPath, journalsPath}
                    /\ IsMd(p[Len(p)])
                    /\ ~Plain(f, p)}

\* C13: a searchPages call with a query of legal length succeeds whatever
\* symbolic links, directories or hard-linked files are named like documents;
\* none of them is in the results, and every other matching document is.
C13_UnsafeSkipped ==
  (last.op = "searchPages" /\ strLength(last.arg) <= 1000) =>
    /\ last.ok
    /\ \A p \in Unsafe(fs) : Relative(p) \notin Returned(last)
    /\ \A p \in SafeMatching(fs, last) : Relative(p) \in Returned(last)


(***************************************************************************)
(* Journals: createJournalPage and appendToJournalPage next to the page    *)
(* operations and getGraph                                                 *)
(***************************************************************************)
\* an optional string argument: absent, or given with a text (maybe empty)
Absent == [has |-> FALSE, text |-> <<>>]

Given(text) == [has |-> TRUE, text |-> text]

\* the truth value JavaScript gives an optional string
Truthy(s) == s.has /\ s.text # <<>>

\* /^\d{4}-\d{2}-\d{2}$/.test(date)
IsDate(date) ==
  /\ Len(date) = 10
  /\ \A i \in 1..10 : IF i \in {5, 8} THEN date[i] = "-" ELSE date[i] \in Digit

\* targetDate.replace(/-/g, '_') + '.md'
journalFileName(targetDate) == DashToUnderscore(targetDate) \o <<".md">>

\* a journal that is written whether or not its file is there
journalNeverExists(f, filePath) == FALSE

\* try { await stat(filePath) ... }: the journal file is there already
journalExists(f, filePath) == stat(f, filePath) \in {"file", "dir"}

\* createJournalPage(date, template), on a day getTodayString gives as today
createJournalPage(f, date, template, today) ==
  LET targetDate == IF Truthy(date) THEN date.text ELSE today
      fileName == journalFileName(targetDate)
      filePath == join(journalsPath, fileName)
      made == mkdir(f, journalsPath)
      f1 == made.fs
      content == IF Truthy(template) THEN template.text ELSE <<"-", " ">>
      w == writeFile(f1, filePath, content)
      pathOrName == <<"journals", "/">> \o fileName
  IN  IF Truthy(date) /\ ~IsDate(date.text) THEN Err(f, "Invalid date format", {})
      ELSE IF Truthy(template) /\ validateContentSize(template.text) # ""
           THEN Err(f, validateContentSize(template.text), {})
      ELSE IF validatePath(filePath).err # "" THEN Err(f, validatePath(filePath).err, {})
      ELSE IF made.err # "" THEN Err(f, made.err, {})
      ELSE IF checkSymlink(f1, filePath) # "" THEN Err(f1, checkSymlink(f1, filePath), {})
      ELSE IF journalExists(f1, filePath) THEN readPage(f1, pathOrName)
      ELSE IF w.err # "" THEN Err(f1, w.err, {})
      ELSE ThenRead(w.fs, pathOrName, {<<"write", w.at>>})

\* appendToJournalPage(date, content)
appendToJournalPage(f, date, content, today) ==
  LET targetDate == IF Truthy(date) THEN date.text ELSE today
      fileName == journalFileName(targetDate)
      filePath == join(journalsPath, fileName)
      made == mkdir(f, journalsPath)
      f1 == made.fs
      existing == readFile(f1, filePath)
      existingContent == IF existing.err = "" THEN existing.text ELSE <<>>
      given == IF Truthy(content) THEN content.text ELSE <<>>
      newContent == IF existingContent # <<>> THEN existingContent \o <<"\n">> \o given
                    ELSE IF Truthy(content) THEN content.text ELSE <<"-", " ">>
      w == writeFile(f1, filePath, newContent)
      pathOrName == <<"journals", "/">> \o fileName
      acc == IF existing.err = "" THEN {<<"read", existing.at>>} ELSE {}
  IN  IF Truthy(date) /\ ~IsDate(date.text) THEN Err(f, "Invalid date format", {})
      ELSE IF Truthy(content) /\ validateContentSize(content.text) # ""
           THEN Err(f, validateContentSize(content.text), {})
      ELSE IF validatePath(filePath).err # "" THEN Err(f, validatePath(filePath).err, {})
      ELSE IF made.err # "" THEN Err(f, made.err, {})
      ELSE IF checkSymlink(f1, filePath) # "" THEN Err(f1, checkSymlink(f1, filePath), {})
      ELSE IF w.err # "" THEN Err(f1, w.err, acc)
      ELSE ThenRead(w.fs, pathOrName, acc \cup {<<"write", w.at>>})

DoCreateJournalPage(date, template, today) ==
  Return("createJournalPage", date, template, <<>>, today,
         createJournalPage(fs, date, template, today))

DoAppendToJournalPage(date, content, today) ==
  Return("appendToJournalPage", date, content, <<>>, today,
         appendToJournalPage(fs, date, content, today))

\* the day the calls name, and the day the clock shows
JournalDate == <<"2", "0", "2", "1", "-", "0", "1", "-", "0", "2">>

Today == <<"2", "0", "2", "1", "-", "0", "1", "-", "0", "1">>

\* the name of the journal of a day
JournalName(date) == DashToUnderscore(date)

JournalFile(date) == journalsPath \o <<journalFileName(date)>>

JournalTexts == {LinkTo(JournalName(JournalDate)), <<"x">>}

JournalCreateCalls ==
  {[date |-> Given(JournalDate), template |-> t] :
     t \in {Absent, Given(<<>>), Given(<<"x">>), Given(Oversize)}}
    \cup {[date |-> Absent, template |-> Absent],
          [date |-> Given(<<"2", "1">>), template |-> Absent]}

JournalInit ==
  /\ fs \in {EmptyTree, BareTree}
  /\ last = Idle
  /\ hist = NoHist
  /\ procs = NoProcs

JournalCreate == \E c \in JournalCreateCalls : DoCreateJournalPage(c.date, c.template, Today)

JournalAppend ==
  /\ LinesAt(fs, JournalDate) < MaxLines
  /\ \E c \in {Absent, Given(<<"y">>)} : DoAppendToJournalPage(Given(JournalDate), c, Today)

JournalPageCreate == \E t \in JournalTexts : DoCreatePage(<<"A">>, t, <<>>)

JournalPageUpdate == \E t \in JournalTexts : DoUpdatePage(<<"A">>, t, <<>>)

JournalPageAppend ==
  /\ LinesAt(fs, <<"A">>) < MaxLines
  /\ DoAppendToPage(<<"A">>, <<"y">>)

JournalDelete == \E p \in {<<"A">>, JournalDate} : DoDeletePage(p)

JournalGraph ==
  \E c \in {<<>>, <<"A">>, JournalName(JournalDate)} : DoGetGraph(c, Depth(1))

JournalNext ==
  \/ JournalCreate
  \/ JournalAppend
  \/ JournalPageCreate
  \/ JournalPageUpdate
  \/ JournalPageAppend
  \/ JournalDelete
  \/ JournalGraph

SpecJournal == JournalInit /\ [][JournalNext]_vars

\* the kind of the documents that bear a name: "page", "journal", "both" or "none"
KindOf(f, name) ==
  LET inPages == \E p \in Docs(f) : Parent(p) = pagesPath /\ basename(p) = name
      inJournals == \E p \in Docs(f) : Parent(p) = journalsPath /\ basename(p) = name
  IN  IF inPages /\ inJournals THEN "both"
      ELSE IF inPages THEN "page"
      ELSE IF inJournals THEN "journal" ELSE "none"

\* C14: in every getGraph result, full or centered, a node whose id is the
\* name of an existing document has kind 'journal' when that document is in
\* journals/ and kind 'page' when it is in pages/.
C14_NodeKinds ==
  (last.op = "getGraph" /\ last.ok) =>
    \A i \in 1..Len(last.val.nodes) :
      LET node == last.val.nodes[i]
      IN  (node.type # "tag" /\ KindOf(fs, node.id) \in {"page", "journal"})
            => node.type = KindOf(fs, node.id)

\* the journal file a call with this date argument is about
TargetFile(l) == JournalFile(IF Truthy(l.arg) THEN l.arg.text ELSE l.opt)

TargetArg(l) == Relative(TargetFile(l))[1] \o <<"/">> \o Relative(TargetFile(l))[2]

IsJournalCreate(l) ==
  l.op = "createJournalPage" /\ (Truthy(l.arg) => IsDate(l.arg.text))

\* what the claim expects of one createJournalPage call for a valid date
CreateJournalCase(f, f2, l, stub) ==
  IF Kind(f, TargetFile(l)) = "file"
  THEN /\ l.ok
       /\ f2 = f
       /\ l.val = readPage(f, TargetArg(l)).val
  ELSE Kind(f, TargetFile(l)) = "none" =>
         /\ l.ok
         /\ Kind(f2, TargetFile(l)) = "file"
         /\ f2[TargetFile(l)].text = (IF stub THEN <<"-", " ">> ELSE l.content.text)
         /\ l.val = readPage(f2, TargetArg(l)).val

\* C16 as stated: for every template, an existing journal is returned and
\* left as it is, and a missing one is created with the template when one is
\* given and with the stub '- ' when none is
C16_AsStated ==
  [][IsJournalCreate(last') => CreateJournalCase(fs, fs', last', ~last'.content.has)]_vars

\* C16: createJournalPage(date, template) with a valid date and a template
\* that is absent or at most 10 MiB returns the existing journal of that date
\* and leaves its file unchanged; when the file does not exist it creates it
\* with the template if that is a non-empty string, and with the stub '- '
\* when the template is absent or empty.
C16_CreateJournal ==
  [][(IsJournalCreate(last')
        /\ (Truthy(last'.content) => validateContentSize(last'.content.text) = ""))
       => CreateJournalCase(fs, fs', last', ~Truthy(last'.content))]_vars

\* a call with a template came back with the journal of a day whose file
\* holds another text than the template, and wrote nothing
C16_Witness ==
  /\ IsJournalCreate(last)
  /\ last.ok
  /\ Truthy(last.content)
  /\ \A a \in last.acc : a[1] # "write"
  /\ last.val.content # last.content.text
  /\ fs[TargetFile(last)].text # last.content.text

MutatingOps ==
  {"createPage", "updatePage", "appendToPage", "deletePage",
   "createJournalPage", "appendToJournalPage"}

\* the file a call resolves to, in the tree it starts from
Target(f, l) ==
  IF l.op = "createPage" THEN PagePath(l.arg)
  ELSE IF l.op \in {"createJournalPage", "appendToJournalPage"} THEN TargetFile(l)
  ELSE resolvePath(f, l.arg).path

\* the files a call wrote or removed
Touched(l) == {a[2] : a \in {b \in l.acc : b[1] \in {"write", "unlink"}}}

\* every file other than t is in both trees with the same content
OthersUnchanged(f, f2, t) ==
  \A p \in (DOMAIN f \cup DOMAIN f2) \ {t} :
    (Kind(f, p) = "file" \/ Kind(f2, p) = "file") => (Kind(f, p) = Kind(f2, p) /\ f[p] = f2[p])

\* after deletePage the target is gone from the tree, from readPage, from
\* listPages and from the backlinks of every document
Deleted(f2, l, t) ==
  /\ t \notin DOMAIN f2
  /\ LET r == readPage(f2, l.arg) IN r.ok => r.val.path # Relative(t)
  /\ \A pg \in Range(listPages(f2, "")) :
       /\ pg.path # Relative(t)
       /\ KindOf(f2, basename(t)) = "none" => basename(t) \notin Range(pg.backlinks)

\* C19 as stated: every successful mutating call writes or removes exactly one
\* file, its resolved target
C19_AsStated ==
  [][(last'.op \in MutatingOps /\ last'.ok) => Touched(last') = {Target(fs, last')}]_vars

\* C19: every successful createPage, updatePage, appendToPage, deletePage,
\* createJournalPage and appendToJournalPage call writes or removes no file
\* but its resolved target, and exactly that one unless it is a
\* createJournalPage that found the journal; every other file is unchanged;
\* after deletePage the target no longer exists, readPage does not return it
\* and it is neither listed nor a backlink source.
C19_OneFileChanged ==
  [][(last'.op \in MutatingOps /\ last'.ok) =>
       LET t == Target(fs, last')
       IN  /\ Touched(last') \subseteq {t}
           /\ Touched(last') = {}
                <=> (last'.op = "createJournalPage" /\ Kind(fs, t) = "file")
           /\ Touched(last') = {} => fs' = fs
           /\ OthersUnchanged(fs, fs', t)
           /\ last'.op = "deletePage" => Deleted(fs', last', t)]_vars

\* a deletePage took away a document that was a backlink source, while
\* another document was there to stay
C19_Witness ==
  /\ last.op = "deletePage"
  /\ last.ok
  /\ hist.removed # {}
  /\ Docs(fs) # {}


(***************************************************************************)
(* Editing one document: updatePage and appendToPage on pages/A.md, with   *)
(* texts that end in blanks, hold properties and links, or reach the cap   *)
(***************************************************************************)
EditProps == << << <<"k">>, <<"v">> >> >>

EditWrites ==
  { [content |-> <<"x">>, props |-> <<>>],
    [content |-> <<"x", "\n">>, props |-> <<>>],
    [content |-> <<"x">>, props |-> EditProps],
    [content |-> LinkTo(<<"B">>), props |-> EditProps],
    [content |-> <<BigChunk>>, props |-> <<>>],
    [content |-> Oversize, props |-> <<>>] }

EditInit ==
  /\ fs = BareTree @@ (PagePath(<<"A">>) :> File(buildContent(LinkTo(<<"B">>), EditProps).text))
  /\ last = Idle
  /\ hist = NoHist
  /\ procs = NoProcs

EditUpdate == \E w \in EditWrites : DoUpdatePage(<<"A">>, w.content, w.props)

EditAppend ==
  /\ LinesAt(fs, <<"A">>) <= MaxLines + 2
  /\ \E x \in {<<"y">>, <<"w", " ">>, Oversize} : DoAppendToPage(<<"A">>, x)

EditRead == DoReadPage(<<"A">>)

EditNext == EditUpdate \/ EditAppend \/ EditRead

SpecEdit == EditInit /\ [][EditNext]_vars

\* C17: appendToPage(p, x) on an existing document with stored text t fails
\* with 'Content too large' and leaves the file unchanged when x or t, a
\* newline and x together exceed the 10 MiB cap; otherwise it succeeds and the
\* stored text is t followed by one newline followed by x.
C17_AppendKeeps ==
  [][(last'.op = "appendToPage" /\ Kind(fs, Target(fs, last')) = "file") =>
       LET t == fs[Target(fs, last')].text
           x == last'.content
           combined == t \o <<"\n">> \o x
       IN  IF byteLength(x) > MAX_CONTENT_SIZE \/ byteLength(combined) > MAX_CONTENT_SIZE
           THEN ~last'.ok /\ last'.err = "Content too large" /\ fs' = fs
           ELSE last'.ok /\ fs'[Target(fs, last')].text = combined]_vars

\* C18: after a successful updatePage(p, c, ps) the file holds the
\* serialization of ps and c and nothing else, whatever it held before and
\* also when ps is omitted, and the returned document is the one readPage(p)
\* returns next.
C18_UpdateReplaces ==
  [][(last'.op = "updatePage" /\ last'.ok) =>
       /\ fs'[Target(fs, last')].text = buildContent(last'.content, last'.props).text
       /\ last'.val = readPage(fs', last'.arg).val
       /\ readPage(fs', last'.arg).ok]_vars

\* an update without properties replaced a text that held a link: the link is
\* gone from the file, and the returned document has no property and no link
C18_Witness ==
  /\ last.op = "updatePage"
  /\ last.ok
  /\ last.props = <<>>
  /\ hist.removed # {}
  /\ last.val.properties = <<>>
  /\ last.val.links = <<>>
  /\ fs[PagePath(<<"A">>)].text = last.content


(***************************************************************************)
(* Errors: what the tool handler returns for a failed call.  A message is  *)
(* a sequence of words and marks; "<detail>" and "<description>" stand for *)
(* wording that holds no path and none of the words sanitizeErrorMessage   *)
(* looks for                                                               *)
(***************************************************************************)
Words(a, b) == <<a, " ", b>>

\* an absolute path as text
RECURSIVE PathText(_)
PathText(path) == IF path = <<>> THEN <<>> ELSE <<"/">> \o Head(path) \o PathText(Tail(path))

\* the errors the service throws itself, with the text of their message
ServiceErrors ==
  {"Access denied", "Page not found", "Page already exists", "Content too large",
   "Invalid page name", "Invalid date format", "Invalid property",
   "Search query too long"}

ServiceMessage(err, pathOrName) ==
  CASE err = "Access denied" -> Words("Access", "denied") \o <<":", " ", "<detail>">>
    [] err = "Page not found" -> Words("Page", "not") \o <<" ", "found", ":", " ">> \o pathOrName
    [] err = "Page already exists" ->
         Words("Page", "already") \o <<" ", "exists", ":", " ">> \o pathOrName
    [] err = "Content too large" -> Words("Content", "too") \o <<" ", "large", ":", " ", "<detail>">>
    [] err = "Invalid page name" -> Words("Invalid", "page") \o <<" ", "name", ":", " ", "<detail>">>
    [] err = "Invalid date format" ->
         Words("Invalid", "date") \o <<" ", "format", ":", " ", "<detail>">>
    [] err = "Invalid property" -> Words("Invalid", "property") \o <<" ", "<detail>">>
    [] OTHER -> Words("Search", "query") \o <<" ", "too", " ", "long", " ", "<detail>">>

\* the message of an error of node:fs/promises: code, description, system call, path
NodeMessage(code, syscall, path) ==
  <<code, ":", " ", "<description>", ",", " ", syscall, " ", "'">> \o PathText(path) \o <<"'">>

safePatterns ==
  << Words("Invalid", "page") \o <<" ", "name">>,
     Words("Page", "already") \o <<" ", "exists">>,
     Words("Page", "not") \o <<" ", "found">>,
     Words("Access", "denied"),
     Words("Invalid", "date") \o <<" ", "format">>,
     Words("Content", "too") \o <<" ", "large">>,
     Words("Search", "query") \o <<" ", "too", " ", "long">>,
     Words("Invalid", "property") >>

errorCodes ==
  << <<"ENOENT", "File or directory not found">>,
     <<"EACCES", "Permission denied">>,
     <<"EEXIST", "File already exists">>,
     <<"EISDIR", "Expected file but found directory">>,
     <<"ENOTDIR", "Expected directory but found file">>,
     <<"ENOTEMPTY", "Directory not empty">>,
     <<"EPERM", "Operation not permitted">> >>

sanitizeErrorMessage(message) ==
  IF \E i \in 1..Len(safePatterns) : Includes(message, safePatterns[i]) THEN message
  ELSE IF \E i \in 1..Len(errorCodes) : Includes(message, <<errorCodes[i][1]>>)
  THEN LET i == CHOOSE i \in 1..Len(errorCodes) :
                  /\ Includes(message, <<errorCodes[i][1]>>)
                  /\ \A j \in 1..(i - 1) : ~Includes(message, <<errorCodes[j][1]>>)
       IN  <<errorCodes[i][2]>>
  ELSE IF Includes(message, <<"Expected">>) \/ Includes(message, <<"Invalid">>) THEN message
  ELSE <<"An unexpected error occurred">>

\* the text of the catch block of the tool handler
ToolError(message) == <<"Error", ":", " ">> \o sanitizeErrorMessage(message)

\* the system call that fails first in each operation on a resolved path
Syscall(op) == IF op = "deletePage" THEN "unlink" ELSE "open"

\* the message of the error a failed page operation threw
errorMessage(f, op, pathOrName, err) ==
  IF err \in ServiceErrors THEN ServiceMessage(err, pathOrName)
  ELSE NodeMessage(err, Syscall(op), resolvePath(f, pathOrName).path)

\* the tool handler around an operation: a failure comes back as text
handle(f, op, pathOrName, r) ==
  IF r.ok THEN r
  ELSE [r EXCEPT !.val = ToolError(errorMessage(f, op, pathOrName, r.err))]

CallTool(op, pathOrName, content) ==
  Return(op, pathOrName, content, <<>>, "tool",
         handle(fs, op, pathOrName,
                CASE op = "readPage" -> readPage(fs, pathOrName)
                  [] op = "updatePage" -> updatePage(fs, pathOrName, content, <<>>)
                  [] op = "appendToPage" -> appendToPage(fs, pathOrName, content)
                  [] OTHER -> deletePage(fs, pathOrName)))

SanitizeArgs ==
  { <<"pages", "/">> \o Words("Access", "denied") \o <<".md">>,
    <<"pages", "/", "N", ".md">>,
    <<"pages", "/", "sub", "/", "N", ".md">>,
    <<"journals", "/">>,
    <<"..", "/", "etc", "/", "passwd">>,
    <<"N">> }

SanitizeInit ==
  /\ fs = BareTree
  /\ last = Idle
  /\ hist = NoHist
  /\ procs = NoProcs

SanitizeRead == \E a \in SanitizeArgs : CallTool("readPage", a, <<>>)

SanitizeUpdate == \E a \in SanitizeArgs, c \in {<<"x">>, <<"y">>} : CallTool("updatePage", a, c)

SanitizeAppend ==
  \E a \in SanitizeArgs :
    /\ LinesAt(fs, a) < MaxLines
    /\ CallTool("appendToPage", a, <<"y">>)

SanitizeDelete == \E a \in SanitizeArgs : CallTool("deletePage", a, <<>>)

SanitizeNext == SanitizeRead \/ SanitizeUpdate \/ SanitizeAppend \/ SanitizeDelete

SpecSanitize == SanitizeInit /\ [][SanitizeNext]_vars

\* C15: the text returned for a failed tool call never holds the absolute
\* path of the graph root, and when the error came from the file system the
\* text is the same whatever path the failing system call was given.
C15_NoPathInError ==
  (last.opt = "tool" /\ ~last.ok) =>
    /\ ~Includes(last.val, PathText(graphPath))
    /\ last.err \notin ServiceErrors =>
         \A a \in SanitizeArgs :
           ToolError(NodeMessage(last.err, Syscall(last.op), graphPath \o Split(a, "/")))
             = last.val


(***************************************************************************)
(* Two calls on one document, interleaved at their awaits: appendToPage    *)
(* against appendToPage or updatePage.  writeFile(path, text) of           *)
(* node:fs/promises is an open with O_TRUNC followed by a write at the     *)
(* start of the file; the two are separate awaits.                         *)
(***************************************************************************)
RaceName == <<"A">>

RaceIdle ==
  [pc |-> "idle", op |-> "", content |-> <<>>, path |-> <<>>, text |-> <<>>,
   ok |-> FALSE, err |-> "", wroteLast |-> FALSE]

\* the calls a process may make
RaceCalls(p) ==
  IF p = 1 THEN {[op |-> "appendToPage", content |-> <<"y", "y">>]}
  ELSE {[op |-> "appendToPage", content |-> <<"w">>],
        [op |-> "updatePage", content |-> <<"v">>]}

RaceInit ==
  /\ fs = BareTree @@ (PagePath(RaceName) :> File(<<"x">>))
  /\ last = Idle
  /\ hist = NoHist
  /\ procs = [p \in Procs |-> RaceIdle]

\* open(path, 'w'): the file is created or cut to length 0: [err, fs, at]
openTruncate(f, p) == writeFile(f, p, <<>>)

\* write of the whole text through a descriptor that stands at offset 0: what
\* the file holds beyond the written length stays
writeAtStart(f, p, text) ==
  LET q == RealPath(f, p)
      held == IF Kind(f, q) = "file" THEN f[q].text ELSE <<>>
  IN  writeFile(f, p, text \o SubSeq(held, Len(text) + 1, Len(held)))

\* the call is made: validateContentSize(content)
RaceCall(p) ==
  /\ procs[p].pc = "idle"
  /\ \E c \in RaceCalls(p) :
       Step(p, fs, "resolve", validateContentSize(c.content),
            [procs[p] EXCEPT !.op = c.op, !.content = c.content])

\* await this.resolvePath(pathOrName)
RaceResolve(p) ==
  /\ procs[p].pc = "resolve"
  /\ LET r == resolvePath(fs, RaceName)
     IN  Step(p, fs, "check", r.err, [procs[p] EXCEPT !.path = r.path])

\* await this.checkSymlink(filePath); updatePage goes on to buildContent
RaceCheck(p) ==
  /\ procs[p].pc = "check"
  /\ LET built == buildContent(procs[p].content, <<>>)
     IN  IF procs[p].op = "updatePage"
         THEN Step(p, fs, "open",
                   IF checkSymlink(fs, procs[p].path) # ""
                   THEN checkSymlink(fs, procs[p].path) ELSE built.err,
                   [procs[p] EXCEPT !.text = built.text])
         ELSE Step(p, fs, "read", checkSymlink(fs, procs[p].path), procs[p])

\* appendToPage: await readFile(filePath), newContent and its size check
RaceRead(p) ==
  /\ procs[p].pc = "read"
  /\ LET existing == readFile(fs, procs[p].path)
         newContent == trimEnd(existing.text) \o <<"\n">> \o procs[p].content
     IN  Step(p, fs, "open",
              IF existing.err # "" THEN existing.err ELSE validateContentSize(newContent),
              [procs[p] EXCEPT !.text = newContent])

\* await writeFile(filePath, text, 'utf-8'): the open
RaceOpen(p) ==
  /\ procs[p].pc = "open"
  /\ LET w == openTruncate(fs, procs[p].path)
     IN  Step(p, w.fs, "write", w.err, procs[p])

\* await writeFile(filePath, text, 'utf-8'): the write; p is now the call
\* whose write happened last
RaceWrite(p) ==
  /\ procs[p].pc = "write"
  /\ LET w == writeAtStart(fs, procs[p].path, procs[p].text)
     IN  /\ fs' = w.fs
         /\ procs' = [q \in Procs |->
                        IF q = p
                        THEN [procs[p] EXCEPT !.pc = IF w.err = "" THEN "readPage" ELSE "done",
                                              !.err = w.err, !.wroteLast = TRUE]
                        ELSE [procs[q] EXCEPT !.wroteLast = FALSE]]
         /\ UNCHANGED <<last, hist>>

\* return this.readPage(pathOrName): its awaits read and change nothing
RaceReadPage(p) ==
  /\ procs[p].pc = "readPage"
  /\ LET r == readPage(fs, RaceName)
     IN  Step(p, fs, "done", r.err, [procs[p] EXCEPT !.ok = r.ok])

RaceNext ==
  \E p \in Procs :
    \/ RaceCall(p)
    \/ RaceResolve(p)
    \/ RaceCheck(p)
    \/ RaceRead(p)
    \/ RaceOpen(p)
    \/ RaceWrite(p)
    \/ RaceReadPage(p)

SpecRace == RaceInit /\ [][RaceNext]_vars

\* C20: when two calls on one document (appendToPage with appendToPage or
\* updatePage) have both completed, whatever their interleaving, both have
\* returned without error and the stored text is exactly the text computed
\* by the call whose write happened last, from the text that call read.
C20_LastWriterWins ==
  (\A p \in DOMAIN procs : procs[p].pc = "done") =>
    /\ \A p \in DOMAIN procs : procs[p].ok
    /\ \E p \in DOMAIN procs :
         procs[p].wroteLast /\ fs[PagePath(RaceName)].text = procs[p].text


(***************************************************************************)
(* Properties: createPage and updatePage with property maps that hold      *)
(* line breaks, '::' and keys of the wrong shape                           *)
(***************************************************************************)
BadKey == << <<<<"k", "\n", "t">>, <<"v">>>> >>

PropsPool ==
  { << <<<<"k">>, <<"v">>>> >>,
    << <<<<"k">>, <<"v", ":", ":", "w">>>> >>,
    << <<<<"k">>, <<"v">>>>, <<<<"t", "1">>, <<"w">>>> >>,
    BadKey,
    << <<<<"k", ":", ":", "t">>, <<"v">>>> >>,
    << <<<<"k">>, <<"v", "\n", "t", ":", ":", " ", "w">>>> >>,
    << <<<<"k">>, <<"v">>>>, <<<<"t">>, <<"v", "\r">>>> >>,
    << <<<<"1", "k">>, <<"v">>>> >>,
    << <<<<"k", " ">>, <<"v">>>> >> }

\* the calls: every map with a small content, and two with content above the cap
PropsCalls ==
  {[content |-> <<"x">>, props |-> ps] : ps \in PropsPool}
    \cup {[content |-> Oversize, props |-> BadKey],
          [content |-> Oversize, props |-> << <<<<"k">>, <<"v">>>> >>]}

PropsInit ==
  /\ fs \in {EmptyTree, BareTree @@ (PagePath(<<"A">>) :> File(<<"y">>))}
  /\ last = Idle
  /\ hist = NoHist
  /\ procs = NoProcs

PropsCreate ==
  \/ \E c \in PropsCalls : DoCreatePage(<<"A">>, c.content, c.props)
  \/ DoCreatePage(<<"A", "/">>, <<"x">>, BadKey)

PropsUpdate ==
  \/ \E c \in PropsCalls : DoUpdatePage(<<"A">>, c.content, c.props)
  \/ DoUpdatePage(<<"B">>, <<"x">>, BadKey)

PropsDelete == DoDeletePage(<<"A">>)

PropsNext == PropsCreate \/ PropsUpdate \/ PropsDelete

SpecProps == PropsInit /\ [][PropsNext]_vars

\* a map the claim calls invalid: a key with a newline or '::', a value with a
\* newline, or a key that is not a letter followed by letters, digits, - or _
BadProps(ps) ==
  \E i \in 1..Len(ps) :
    \/ Includes(ps[i][1], <<"\n">>)
    \/ Includes(ps[i][1], <<":", ":">>)
    \/ Includes(ps[i][2], <<"\n">>)
    \/ ~ValidKey(ps[i][1])

InvalidProperty == {"Invalid property key", "Invalid property value"}

\* the regular files of the tree, with what they hold
Files(f) == {<<p, f[p].text>> : p \in {q \in DOMAIN f : f[q].k = "file"}}

IsPropsCall(l) == l.op \in {"createPage", "updatePage"}

\* the checks that come before buildContent let the call through
ReachesProps(f, l) ==
  /\ validateContentSize(l.content) = ""
  /\ IF l.op = "createPage" THEN validatePageName(l.arg) = ""
     ELSE resolvePath(f, l.arg).err = ""

\* the written property block: one line per entry, then the blank line
OneLineEach(text, ps) ==
  LET lines == Split(text, "\n")
  IN  /\ Len(lines) >= Len(ps) + 2
      /\ \A i \in 1..Len(ps) : lines[i] = ps[i][1] \o <<":", ":", " ">> \o ps[i][2]
      /\ lines[Len(ps) + 1] = <<>>

\* C21 as stated: a createPage or updatePage call with an invalid property
\* map fails with InvalidProperty and creates or modifies no file
C21_AsStated ==
  [][(IsPropsCall(last') /\ BadProps(last'.props)) =>
       /\ ~last'.ok
       /\ last'.err \in InvalidProperty
       /\ Files(fs') = Files(fs)]_vars

\* C21: a createPage or updatePage call with an invalid property map fails
\* and creates or modifies no file, with InvalidProperty when the name, the
\* content size and the path resolution let the call come to the properties;
\* and the property block of every file such a call writes has exactly one
\* line for each entry of the map.
C21_PropsValidated ==
  [][IsPropsCall(last') =>
       /\ BadProps(last'.props) =>
            /\ ~last'.ok
            /\ Files(fs') = Files(fs)
            /\ ReachesProps(fs, last') => last'.err \in InvalidProperty
       /\ (last'.ok /\ last'.props # <<>>) =>
            OneLineEach(fs'[Target(fs, last')].text, last'.props)]_vars

\* a createPage with a line break in a value failed with InvalidProperty,
\* the pages folder is there and the target is not
C21_Witness ==
  /\ last.op = "createPage"
  /\ last.err = "Invalid property value"
  /\ Includes(last.props[1][2], <<"\n">>)
  /\ Kind(fs, pagesPath) = "dir"
  /\ Kind(fs, PagePath(last.arg)) = "none"


(***************************************************************************)
(* Dates: the three journal operations with dates of every shape           *)
(***************************************************************************)
\* what getJournalPage returns when there is no journal
Null == [null |-> TRUE]

\* getJournalPage(date)
getJournalPage(f, date, today) ==
  LET targetDate == IF Truthy(date) THEN date.text ELSE today
      fileName == journalFileName(targetDate)
      filePath == join(journalsPath, fileName)
  IN  IF Truthy(date) /\ ~IsDate(date.text) THEN Err(f, "Invalid date format", {})
      ELSE IF validatePath(filePath).err # "" THEN Err(f, validatePath(filePath).err, {})
      ELSE IF stat(f, filePath) \in {"file", "dir"}
           THEN readPage(f, <<"journals", "/">> \o fileName)
      ELSE Ok(f, Null, {})

DoGetJournalPage(date, today) ==
  Return("getJournalPage", date, Absent, <<>>, today, getJournalPage(fs, date, today))

DateArgs ==
  {Absent, Given(<<>>), Given(JournalDate),
   Given(<<"2", "1">>),
   Given(DashToUnderscore(JournalDate)),
   Given(SubSeq(JournalDate, 1, 9)),
   Given(<<"x">> \o SubSeq(JournalDate, 2, 10))}

DateInit ==
  /\ fs \in {EmptyTree, BareTree @@ (JournalFile(Today) :> File(<<"x">>))}
  /\ last = Idle
  /\ hist = NoHist
  /\ procs = NoProcs

DateGet == \E d \in DateArgs : DoGetJournalPage(d, Today)

DateCreate ==
  \E d \in DateArgs, t \in {Absent, Given(<<"y">>)} : DoCreateJournalPage(d, t, Today)

DateAppend ==
  \E d \in DateArgs :
    /\ LinesAt(fs, IF Truthy(d) THEN d.text ELSE Today) < MaxLines
    /\ DoAppendToJournalPage(d, Given(<<"y">>), Today)

DateNext == DateGet \/ DateCreate \/ DateAppend

SpecDate == DateInit /\ [][DateNext]_vars

JournalOps == {"getJournalPage", "createJournalPage", "appendToJournalPage"}

\* C22: a getJournalPage, createJournalPage or appendToJournalPage call given
\* a date that is not of the shape YYYY-MM-DD, the empty string included,
\* fails with 'Invalid date format' and creates or modifies no file; a call
\* without a date is about the journal of the current day.
C22_DateShape ==
  [][last'.op \in JournalOps =>
       /\ (last'.arg.has /\ ~IsDate(last'.arg.text)) =>
            /\ ~last'.ok
            /\ last'.err = "Invalid date format"
            /\ fs' = fs
       /\ (~last'.arg.has /\ last'.ok /\ last'.val # Null) =>
            last'.val.path = Relative(JournalFile(last'.opt))]_vars


(***************************************************************************)
(* Names: createPage with names of every kind                              *)
(***************************************************************************)
NameArgs ==
  { <<"A">>, <<"<han>", " ", "1", ")">>, <<"A", "\t", "B">>, <<"A", "\n">>,
    <<>>, <<" ">>, <<"\t", "\n">>, <<"<201>">>,
    <<"..">>, <<"A", ".", ".">>, <<"A", "/", "B">>, <<"A", "\\", "B">>,
    <<"A", "<nul>">>, <<"A", ":">>, <<"A", ";">> }

NameInit ==
  /\ fs \in {EmptyTree, BareTree}
  /\ last = Idle
  /\ hist = NoHist
  /\ procs = NoProcs

NameCreate ==
  \/ \E n \in NameArgs : DoCreatePage(n, <<"x">>, <<>>)
  \/ \E n \in {<<"A">>, <<"A", "/", "B">>} : DoCreatePage(n, Oversize, <<>>)

NameDelete == \E n \in {<<"A">>, <<"A", "\t", "B">>} : DoDeletePage(n)

NameNext == NameCreate \/ NameDelete

SpecName == NameInit /\ [][NameNext]_vars

\* the characters the claim lets a name have: letters, digits, Hangul, the
\* space and the punctuation of the pattern (".md", ".." and "<201>" stand
\* for runs of such characters)
Allowed == SafeChar \ {"\t", "\n", "\r"}

\* a name the claim has rejected
Rejected(name, allowed) ==
  \/ strLength(name) > MAX_NAME_LENGTH
  \/ IsBlankLine(name)
  \/ \E i \in 1..Len(name) : name[i] \notin allowed
  \/ HasDotDot(name)

\* the path written is a direct child of pages/
DirectChild(l) ==
  \A a \in l.acc : a[1] = "write" => Parent(a[2]) = pagesPath

NameRule(allowed) ==
  last'.op = "createPage" =>
    /\ Rejected(last'.arg, allowed) =>
         /\ ~last'.ok
         /\ last'.err = "Invalid page name"
         /\ last'.acc = {}
         /\ fs' = fs
    /\ last'.ok => DirectChild(last') /\ last'.acc # {}

\* C23: createPage fails with 'Invalid page name', with no filesystem access,
\* when the name is longer than 200 characters, empty or blank, or has a
\* character other than letters, digits, Hangul, spaces and the punctuation
\* set (newline, tab, separators, NUL and '..' are rejected); the path of
\* every accepted name is a direct child of pages/.
C23_NameValidated == [][NameRule(Allowed)]_vars


(***************************************************************************)
(* Sizes: the writing operations with content at and above the cap         *)
(***************************************************************************)
\* content of exactly MAX_CONTENT_SIZE bytes
AtCap == <<BigChunk>>

CapContents == {<<"x">>, AtCap, Oversize}

CapProps == {<<>>, << <<<<"k">>, <<"v">>>> >>}

CapInit ==
  /\ fs \in {EmptyTree, BareTree}
  /\ last = Idle
  /\ hist = NoHist
  /\ procs = NoProcs

\* the stored text of a file, <<>> when there is none
StoredText(f, p) == IF Kind(f, p) = "file" THEN f[p].text ELSE <<>>

CapCreate == \E c \in CapContents, ps \in CapProps : DoCreatePage(<<"A">>, c, ps)

CapUpdate == \E c \in CapContents, ps \in CapProps : DoUpdatePage(<<"A">>, c, ps)

CapAppend ==
  /\ Len(StoredText(fs, PagePath(<<"A">>))) <= 2
  /\ \E c \in CapContents : DoAppendToPage(<<"A">>, c)

CapCreateJournal ==
  \E t \in {Absent} \cup {Given(c) : c \in CapContents} :
    DoCreateJournalPage(Absent, t, Today)

CapAppendJournal ==
  /\ Len(StoredText(fs, JournalFile(Today))) <= 2
  /\ \E c \in CapContents : DoAppendToJournalPage(Absent, Given(c), Today)

CapDelete ==
  \/ DoDeletePage(<<"A">>)
  \/ DoDeletePage(<<"journals", "/">> \o journalFileName(Today))

CapNext ==
  \/ CapCreate
  \/ CapUpdate
  \/ CapAppend
  \/ CapCreateJournal
  \/ CapAppendJournal
  \/ CapDelete

SpecCap == CapInit /\ [][CapNext]_vars

WithinCap(f) ==
  \A p \in DOMAIN f : Kind(f, p) = "file" => byteLength(f[p].text) <= MAX_CONTENT_SIZE

\* C24: starting from files within the cap, after any sequence of createPage,
\* updatePage, appendToPage, createJournalPage and appendToJournalPage calls
\* no file is larger than the 10 MiB cap, the property block and the existing
\* text of a journal counted in.
C24_SizeCap == WithinCap(fs)


(***************************************************************************)
(* Depths: the centered graph at every requested depth                     *)
(***************************************************************************)
DepthTexts ==
  { LinkTo(<<"B">>) \o <<" ">> \o Tag(<<"t">>),
    LinkTo(<<"A">>),
    LinkTo(<<"C">>),
    <<"x">> }

DepthArgs == {NoDepth, Depth(0 - 1), Depth(0), Depth(1), Depth(MAX_DEPTH), Depth(MAX_DEPTH + 1)}

DepthInit ==
  /\ fs = BareTree
  /\ last = Idle
  /\ hist = NoHist
  /\ procs = NoProcs

DepthCreate == \E n \in PageNames, t \in DepthTexts : DoCreatePage(n, t, <<>>)

DepthDelete == \E n \in PageNames : DoDeletePage(n)

DepthGet == \E c \in PageNames, d \in DepthArgs : DoGetGraph(c, d)

DepthNext == DepthCreate \/ DepthDelete \/ DepthGet

SpecDepth == DepthInit /\ [][DepthNext]_vars

\* the depth the claim gives a request: clamped to 0..MAX_DEPTH, 1 when absent
Clamped(d) == IF d.has THEN Max(0, Min(d.n, MAX_DEPTH)) ELSE 1

\* the names within n steps of the set S, a link taken in either direction
RECURSIVE Near(_, _, _)
Near(f, S, n) ==
  IF n = 0 THEN S
  ELSE Near(f,
            S \cup {p[2] : p \in {q \in LinkPairs(f) : q[1] \in S}}
              \cup {p[1] : p \in {q \in LinkPairs(f) : q[2] \in S}},
            n - 1)

IsCentered == last.op = "getGraph" /\ last.arg # <<>> /\ last.ok

\* C25: in centered mode every page or journal node of the result is within
\* link/backlink distance maxDepth of the center, maxDepth being the
\* requested depth clamped to 0..10 (1 when absent); a depth above 10 gives
\* the result of 10 and a negative depth the result of 0.
C25_WithinDepth ==
  IsCentered =>
    /\ \A i \in 1..Len(last.val.nodes) :
         last.val.nodes[i].type # "tag"
           => last.val.nodes[i].id \in Near(fs, {last.arg}, Clamped(last.opt))
    /\ last.val = getGraph(fs, last.arg, Depth(Clamped(last.opt))).val


(***************************************************************************)
(* The shape of a graph result                                             *)
(***************************************************************************)
\* the id has the form tag:T
IsTagId(id) == Len(id) > 0 /\ Head(id) = "tag:"

UniqueIds(g) ==
  \A i, j \in 1..Len(g.nodes) : g.nodes[i].id = g.nodes[j].id => i = j

EdgesClosed(g) ==
  \A i \in 1..Len(g.edges) :
    g.edges[i].source \in NodeIds(g) /\ g.edges[i].target \in NodeIds(g)

KindsById(g) ==
  \A i \in 1..Len(g.nodes) :
    IF IsTagId(g.nodes[i].id) THEN g.nodes[i].type = "tag"
    ELSE g.nodes[i].type \in {"page", "journal"}

\* C26: in every getGraph result, of both modes, no two nodes share an id,
\* the source and the target of every edge are ids of nodes of the result, a
\* node with an id of the form tag:T has kind 'tag' and every other node has
\* kind 'page' or 'journal'.
C26_WellFormed ==
  (last.op = "getGraph" /\ last.ok)
    => UniqueIds(last.val) /\ EdgesClosed(last.val) /\ KindsById(last.val)


(***************************************************************************)
(* Scans: the index over folders that hold directories, symbolic links,    *)
(* and a page and a journal of one name                                    *)
(***************************************************************************)
\* no entry at a path
None == [k |-> "none", text |-> <<>>, to |-> <<>>, nlink |-> 0]

Place(f, p, e) == IF e = None THEN f ELSE f @@ (p :> e)

ScanTrees ==
  { Place(Place(Place(Place(BareTree, PagePath(<<"A">>), a), PagePath(<<"B">>), b),
                PagePath(<<"C">>), c), JournalPath(<<"A">>), j) :
      a \in {None, File(LinkTo(<<"B">>)), Dir, Link(PagePath(<<"B">>))},
      b \in {None, File(<<"x">>), File(LinkTo(<<"A">>))},
      c \in {None, File(LinkTo(<<"B">>))},
      j \in {None, File(LinkTo(<<"B">>)), Link(PagePath(<<"B">>))} }
    \cup {EmptyTree,
          EmptyTree @@ (journalsPath :> Dir) @@ (JournalPath(<<"A">>) :> File(<<"x">>))}

ScanArgs == {<<"A">>, <<"B">>, <<"C">>, <<"journals", "/", "A", ".md">>}

ScanInit ==
  /\ fs \in ScanTrees
  /\ last = Idle
  /\ hist = NoHist
  /\ procs = NoProcs

ScanList == \E folder \in {"", "pages", "journals"} : DoListPages(folder)

ScanRead == \E a \in ScanArgs : DoReadPage(a)

ScanBacklinks == \E a \in ScanArgs : DoGetBacklinks(a)

ScanDelete == \E a \in {<<"A">>, <<"C">>} : DoDeletePage(a)

ScanNext == ScanList \/ ScanRead \/ ScanBacklinks \/ ScanDelete

SpecScan == ScanInit /\ [][ScanNext]_vars

\* the paths of the entries of an index, under the root
IndexPaths(pages) == {graphPath \o pages[i].path : i \in 1..Len(pages)}

\* C27: the index holds one entry for every '.md' entry of pages/ and of
\* journals/ that is a readable file and not a symbolic link; a missing
\* folder, a symbolic link or an entry that cannot be read (a directory
\* named x.md) takes away that entry only, never the entries listed after it.
C27_IndexComplete ==
  (last.op = "listPages" /\ last.opt = "")
    => /\ IndexPaths(last.val) = Docs(fs)
       /\ \A i, k \in 1..Len(last.val) : last.val[i].path = last.val[k].path => i = k


\* the entries of a listing that are about documents of this name
EntriesOf(pages, name) == {i \in 1..Len(pages) : pages[i].name = name}

InFolderOf(folder, p) == IF folder = "journals" THEN p.isJournal ELSE ~p.isJournal

\* C29: on an unchanged tree the backlinks readPage(X) gives, the backlinks
\* of X's entry in listPages() and the names of the documents getBacklinks(X)
\* returns are one list in one order, also when a page and a journal share a
\* name; listPages(folder) is listPages() restricted to the folder, with the
\* backlinks unchanged (sources of the other folder are kept).
C29_BacklinksAgree ==
  LET all == listPages(fs, "")
  IN  /\ (last.op = "readPage" /\ last.ok)
           => \A i \in EntriesOf(all, last.val.name) :
                all[i].backlinks = last.val.backlinks
      /\ (last.op = "getBacklinks" /\ last.ok)
           => /\ Names(last.val) = readPage(fs, last.arg).val.backlinks
              /\ \A i \in EntriesOf(all, readPage(fs, last.arg).val.name) :
                   all[i].backlinks = Names(last.val)
      /\ (last.op = "listPages" /\ last.opt # "")
           => last.val = SelectPages(all, LAMBDA p : InFolderOf(last.opt, p))

\* getBacklinks(B) where pages/A.md, pages/C.md and journals/A.md link to B:
\* the page and the journal of the name A are both among the sources
C29_Witness ==
  /\ last.op = "getBacklinks"
  /\ last.ok
  /\ last.arg = <<"B">>
  /\ Names(last.val) = << <<"A">>, <<"C">>, <<"A">> >>
  /\ EntriesOf(listPages(fs, ""), <<"B">>) # {}


(***************************************************************************)
(* Two journal calls on one date, interleaved at their awaits:             *)
(* appendToJournalPage against appendToJournalPage or createJournalPage    *)
(***************************************************************************)
\* the calls a process may make, all for the journal of the day
JournalRaceCalls(p) ==
  IF p = 1 THEN {[op |-> "appendToJournalPage", content |-> Given(<<"y", "y">>)]}
  ELSE {[op |-> "appendToJournalPage", content |-> Given(<<"w">>)],
        [op |-> "createJournalPage", content |-> Absent],
        [op |-> "createJournalPage", content |-> Given(<<"v">>)]}

JournalRaceInit ==
  /\ fs \in {EmptyTree, BareTree, BareTree @@ (JournalFile(Today) :> File(<<"x">>))}
  /\ last = Idle
  /\ hist = NoHist
  /\ procs = [p \in Procs |-> RaceIdle]

\* the call is made: the size of the template or content, validatePath
JournalRaceCall(p) ==
  /\ procs[p].pc = "idle"
  /\ \E c \in JournalRaceCalls(p) :
       LET filePath == join(journalsPath, journalFileName(Today))
       IN  Step(p, fs, "mkdir",
                IF Truthy(c.content) /\ validateContentSize(c.content.text) # ""
                THEN validateContentSize(c.content.text)
                ELSE validatePath(filePath).err,
                [procs[p] EXCEPT !.op = c.op, !.content = c.content, !.path = filePath])

\* await mkdir(this.journalsPath, { recursive: true })
JournalRaceMkdir(p) ==
  /\ procs[p].pc = "mkdir"
  /\ LET made == mkdir(fs, journalsPath)
     IN  Step(p, made.fs, "check", made.err, procs[p])

\* await this.checkSymlink(filePath)
JournalRaceCheck(p) ==
  /\ procs[p].pc = "check"
  /\ Step(p, fs, IF procs[p].op = "createJournalPage" THEN "stat" ELSE "read",
          checkSymlink(fs, procs[p].path), procs[p])

\* createJournalPage: await stat(filePath); the journal is there, or the
\* template or stub is to be written
JournalRaceStat(p) ==
  /\ procs[p].pc = "stat"
  /\ Step(p, fs, IF journalExists(fs, procs[p].path) THEN "readPage" ELSE "open", "",
          [procs[p] EXCEPT !.text = IF Truthy(procs[p].content)
                                    THEN procs[p].content.text ELSE <<"-", " ">>])

\* appendToJournalPage: await readFile(filePath) in its try, and newContent
JournalRaceRead(p) ==
  /\ procs[p].pc = "read"
  /\ LET existing == readFile(fs, procs[p].path)
         existingContent == IF existing.err = "" THEN existing.text ELSE <<>>
         newContent == IF existingContent # <<>>
                       THEN existingContent \o <<"\n">> \o procs[p].content.text
                       ELSE procs[p].content.text
     IN  Step(p, fs, "open", "", [procs[p] EXCEPT !.text = newContent])

\* await writeFile(filePath, text, 'utf-8'): the open
JournalRaceOpen(p) ==
  /\ procs[p].pc = "open"
  /\ LET w == openTruncate(fs, procs[p].path)
     IN  Step(p, w.fs, "write", w.err, procs[p])

\* await writeFile(filePath, text, 'utf-8'): the write
JournalRaceWrite(p) ==
  /\ procs[p].pc = "write"
  /\ LET w == writeAtStart(fs, procs[p].path, procs[p].text)
     IN  Step(p, w.fs, "readPage", w.err, procs[p])

\* return this.readPage(`journals/${fileName}`)
JournalRaceReadPage(p) ==
  /\ procs[p].pc = "readPage"
  /\ LET r == readPage(fs, <<"journals", "/">> \o journalFileName(Today))
     IN  Step(p, fs, "done", r.err, [procs[p] EXCEPT !.ok = r.ok])

JournalRaceNext ==
  \E p \in Procs :
    \/ JournalRaceCall(p)
    \/ JournalRaceMkdir(p)
    \/ JournalRaceCheck(p)
    \/ JournalRaceStat(p)
    \/ JournalRaceRead(p)
    \/ JournalRaceOpen(p)
    \/ JournalRaceWrite(p)
    \/ JournalRaceReadPage(p)

SpecJournalRace == JournalRaceInit /\ [][JournalRaceNext]_vars

\* C28: for every interleaving of createJournalPage and appendToJournalPage
\* calls on one date, once all calls have completed the journal file holds
\* the content of every appendToJournalPage call that completed.
C28_AppendsKept ==
  (\A p \in DOMAIN procs : procs[p].pc = "done") =>
    \A p \in DOMAIN procs :
      (procs[p].op = "appendToJournalPage" /\ procs[p].ok)
        => Includes(StoredText(fs, JournalFile(Today)), procs[p].content.text)


(***************************************************************************)
(* Calls on one page, step by step at their awaits, while another process  *)
(* replaces the page file by a symbolic link to a file outside the root    *)
(***************************************************************************)
SwapName == <<"A">>

\* through: the call has read, written or removed at a path that was a
\* symbolic link at that moment
SwapIdle ==
  [pc |-> "idle", op |-> "", content |-> <<>>, path |-> <<>>, text |-> <<>>,
   ok |-> FALSE, err |-> "", through |-> FALSE]

SwapCalls ==
  {[op |-> "readPage", content |-> <<>>],
   [op |-> "updatePage", content |-> <<"v">>],
   [op |-> "appendToPage", content |-> <<"y">>],
   [op |-> "deletePage", content |-> <<>>],
   [op |-> "listPages", content |-> <<>>]}

SwapTree == BareTree @@ (<< <<"etc">> >> :> Dir) @@ (Outside :> File(<<"s">>))

SwapInit ==
  /\ fs \in {SwapTree @@ (PagePath(SwapName) :> File(<<"x">>)),
             SwapTree @@ (PagePath(SwapName) :> Link(Outside))}
  /\ last = Idle
  /\ hist = NoHist
  /\ procs = [p \in Procs |-> SwapIdle]

\* the other process: pages/A.md, whatever it is, becomes a link to /etc/passwd
SwapReplace ==
  /\ Kind(fs, PagePath(SwapName)) # "link"
  /\ fs' = Put(Remove(fs, PagePath(SwapName)), PagePath(SwapName), Link(Outside))
  /\ UNCHANGED <<last, hist, procs>>

IsLinkNow(f, path) == Kind(f, path) = "link"

\* the call is made: validateContentSize(content) of updatePage, appendToPage
SwapCall(p) ==
  /\ procs[p].pc = "idle"
  /\ \E c \in SwapCalls :
       Step(p, fs, IF c.op = "listPages" THEN "lstat" ELSE "resolve",
            validateContentSize(c.content),
            [procs[p] EXCEPT !.op = c.op, !.content = c.content,
                             !.path = PagePath(SwapName)])

\* await this.resolvePath(pathOrName)
SwapResolve(p) ==
  /\ procs[p].pc = "resolve"
  /\ LET r == resolvePath(fs, SwapName)
     IN  Step(p, fs, "check", r.err, [procs[p] EXCEPT !.path = r.path])

\* await this.checkSymlink(filePath)
SwapCheck(p) ==
  /\ procs[p].pc = "check"
  /\ Step(p, fs,
          IF procs[p].op \in {"readPage", "appendToPage"} THEN "read"
          ELSE IF procs[p].op = "updatePage" THEN "write" ELSE "unlink",
          checkSymlink(fs, procs[p].path),
          [procs[p] EXCEPT !.text = buildContent(procs[p].content, <<>>).text])

\* collectAllPages at the entry A.md: await lstat(filePath), a link is skipped
SwapLstat(p) ==
  /\ procs[p].pc = "lstat"
  /\ IF lstat(fs, procs[p].path) = "file"
     THEN Step(p, fs, "read", "", procs[p])
     ELSE Step(p, fs, "done", "", [procs[p] EXCEPT !.ok = TRUE])

\* await readFile(filePath, 'utf-8') of readPage, appendToPage and the index
SwapRead(p) ==
  /\ procs[p].pc = "read"
  /\ LET existing == readFile(fs, procs[p].path)
         newContent == trimEnd(existing.text) \o <<"\n">> \o procs[p].content
         seen == [procs[p] EXCEPT !.through = @ \/ IsLinkNow(fs, procs[p].path)]
     IN  IF procs[p].op = "appendToPage"
         THEN Step(p, fs, "write",
                   IF existing.err # "" THEN existing.err
                   ELSE validateContentSize(newContent),
                   [seen EXCEPT !.text = newContent])
         ELSE IF procs[p].op = "listPages"
         THEN Step(p, fs, "done", "", [seen EXCEPT !.ok = TRUE, !.text = existing.text])
         ELSE Step(p, fs, "done", existing.err,
                   [seen EXCEPT !.ok = TRUE, !.text = existing.text])

\* await writeFile(filePath, text, 'utf-8') of updatePage and appendToPage
SwapWrite(p) ==
  /\ procs[p].pc = "write"
  /\ LET w == writeFile(fs, procs[p].path, procs[p].text)
     IN  Step(p, w.fs, "done", w.err,
              [procs[p] EXCEPT !.ok = TRUE,
                               !.through = @ \/ IsLinkNow(fs, procs[p].path)])

\* await unlink(filePath) of deletePage
SwapUnlink(p) ==
  /\ procs[p].pc = "unlink"
  /\ LET u == unlink(fs, procs[p].path)
     IN  Step(p, u.fs, "done", u.err,
              [procs[p] EXCEPT !.ok = TRUE,
                               !.through = @ \/ IsLinkNow(fs, procs[p].path)])

SwapNext ==
  \/ SwapReplace
  \/ \E p \in Procs :
       \/ SwapCall(p)
       \/ SwapResolve(p)
       \/ SwapCheck(p)
       \/ SwapLstat(p)
       \/ SwapRead(p)
       \/ SwapWrite(p)
       \/ SwapUnlink(p)

SpecSwap == SwapInit /\ [][SwapNext]_vars

\* C30: with another process that may replace files under the root by
\* symbolic links between the steps of the service, no readPage, updatePage,
\* appendToPage, deletePage or index build reads, writes or removes at a path
\* that is a symbolic link at the moment of the access.
C30_NoAccessThroughLink ==
  \A p \in DOMAIN procs : ~procs[p].through

=============================================================================
